---- MODULE Spec2Model ----
(***************************************************************************)
(* Contract-API chaincode of the asset tutorials: the sample contracts     *)
(* (SimpleAsset, ComplexAsset, getAsset, handleUnknown, main) and the      *)
(* invocation router they are registered with (contractapi), as the        *)
(* tutorials describe it.  Spec serves requests one at a time; SpecPar     *)
(* serves two ComplexAsset invocations at the same time; SpecTwin and      *)
(* SpecEquiv run two chaincodes side by side.                              *)
(***************************************************************************)
EXTENDS Integers, Sequences, FiniteSets, TLC

\* ------------------------------------------------------------------ bounds
\* longest argument list of a request
MaxArgs == 3
\* number of invocations served in one behaviour
MaxCalls == 3
\* largest value a complex asset reaches
MaxValue == 1
\* longest parameter list of a candidate function
MaxParams == 3
\* most contracts one main function registers
MaxGroups == 2

\* ------------------------------------------------------------------ values
AssetIDs == {"ASSET_1", "ASSET_2"}
\* strings a caller passes after the asset id ("1" is an integer literal,
\* "" the empty string, "{}" the text of a JSON object without members)
ArgVals == {"Updated", "1", "", "{}"}

\* []byte values: nil, a plain string's bytes, or the JSON text of a complex asset
Nil == [kind |-> "nil", s |-> "", owner |-> "", value |-> 0]
Raw(str) == [kind |-> "raw", s |-> str, owner |-> "", value |-> 0]
Json(o, v) == [kind |-> "json", s |-> "", owner |-> o, value |-> v]

\* string(b) of a []byte: nil and empty bytes both give ""
String(b) == IF b.kind = "nil" THEN Raw("") ELSE b

\* error values: nil, errors.New(msg), fmt.Errorf(format, args)
NoErr == [nil |-> TRUE, msg |-> "", args |-> <<>>]
ErrorsNew(m) == [nil |-> FALSE, msg |-> m, args |-> <<>>]
Errorf(f, a) == [nil |-> FALSE, msg |-> f, args |-> a]

\* strconv.Atoi on the strings of the model
Atoi(str) ==
  IF str = "0" THEN [ok |-> TRUE, n |-> 0]
  ELSE IF str = "1" THEN [ok |-> TRUE, n |-> 1]
  ELSE [ok |-> FALSE, n |-> 0]

\* json.Marshal(&ca): the owner and value fields as JSON text
JsonMarshal(c) == Json(c.Owner, c.Value)

\* json.Unmarshal(existing, ca): invalid JSON and JSON that is no object are
\* errors and leave ca untouched; an object fills the fields it names, so
\* the object without members is no error and fills none
JsonUnmarshal(b, c) ==
  IF b.kind = "json"
    THEN [ok |-> TRUE, c |-> [Owner |-> b.owner, Value |-> b.value]]
    ELSE IF b = Raw("{}") THEN [ok |-> TRUE, c |-> c]
    ELSE [ok |-> FALSE, c |-> c]

\* stub.GetState / stub.PutState against the world state; fail is the
\* state store refusing the call
GetState(w, id, fail) ==
  IF fail THEN [ok |-> FALSE, b |-> Nil] ELSE [ok |-> TRUE, b |-> w[id]]

PutState(w, id, b, fail) ==
  IF fail THEN [ok |-> FALSE, w |-> w] ELSE [ok |-> TRUE, w |-> [w EXCEPT ![id] = b]]

\* what a handler or hook hands back: world state, contract instance,
\* call data, payload and error
Ret(w, c, cd, p, e) == [w |-> w, c |-> c, cd |-> cd, payload |-> p, err |-> e]

UnableMsg == "Unable to interact with world state"
ExistsMsg == "Cannot create asset. Asset with id %s already exists"
NoUpdateMsg == "Cannot update asset. Asset with id %s does not exist"
NoReadMsg == "Cannot read asset. Asset with id %s does not exist"
NotComplexMsg == "Asset with id %s is not a ComplexAsset"
NotIntMsg == "Cannot use passed value %s as value. It is not an integer"
UnknownMsg == "Unknown function name passed with args %v"

\* ------------------------------------------------- the sample contracts
\* A handler or hook is applied to the world state w, the ComplexAsset
\* contract instance c, the context's call data cd, its positional
\* arguments a (the context excluded) and the state store's failures f.

\* slip: the asset is written although the error is returned
PutComplexAssetWritesOnError(w, id, c, f) ==
  LET put == PutState(w, id, JsonMarshal(c), FALSE)
  IN  IF ~f.put THEN [w |-> put.w, err |-> NoErr]
                ELSE [w |-> put.w, err |-> ErrorsNew(UnableMsg)]

\* CustomTransactionContext.PutComplexAsset
PutComplexAsset(w, id, c, f) ==
  LET put == PutState(w, id, JsonMarshal(c), f.put)
  IN  IF put.ok THEN [w |-> put.w, err |-> NoErr]
                ELSE [w |-> w, err |-> ErrorsNew(UnableMsg)]

\* slip: Create without the check that the id is free
SimpleAssetCreateOverwrites(w, c, cd, a, f) ==
  LET assetID == a[1]
      put == PutState(w, assetID, Raw("Initialised"), f.put)
  IN  IF ~put.ok THEN Ret(w, c, cd, Raw(""), ErrorsNew(UnableMsg))
      ELSE Ret(put.w, c, cd, Raw(""), NoErr)

\* SimpleAsset.Create of the contract with the getAsset before-hook
SimpleAssetCreate(w, c, cd, a, f) ==
  LET assetID == a[1]
      existing == cd
      put == PutState(w, assetID, Raw("Initialised"), f.put)
  IN  IF existing # Nil THEN Ret(w, c, cd, Raw(""), Errorf(ExistsMsg, <<assetID>>))
      ELSE IF ~put.ok THEN Ret(w, c, cd, Raw(""), ErrorsNew(UnableMsg))
      ELSE Ret(put.w, c, cd, Raw(""), NoErr)

\* SimpleAsset.Update of the contract with the getAsset before-hook
SimpleAssetUpdate(w, c, cd, a, f) ==
  LET assetID == a[1]
      value == a[2]
      existing == cd
      put == PutState(w, assetID, Raw(value), f.put)
  IN  IF existing = Nil THEN Ret(w, c, cd, Raw(""), Errorf(NoUpdateMsg, <<assetID>>))
      ELSE IF ~put.ok THEN Ret(w, c, cd, Raw(""), ErrorsNew(UnableMsg))
      ELSE Ret(put.w, c, cd, Raw(""), NoErr)

\* slip: Read without the check that the asset exists
SimpleAssetReadNoCheck(w, c, cd, a, f) ==
  LET existing == cd
  IN  Ret(w, c, cd, String(existing), NoErr)

\* SimpleAsset.Read of the contract with the getAsset before-hook
SimpleAssetRead(w, c, cd, a, f) ==
  LET assetID == a[1]
      existing == cd
  IN  IF existing = Nil THEN Ret(w, c, cd, Raw(""), Errorf(NoReadMsg, <<assetID>>))
      ELSE Ret(w, c, cd, String(existing), NoErr)

\* len(b) == 0 of a []byte: nil and the empty bytes
LenIsZero(b) == b.kind = "nil" \/ (b.kind = "raw" /\ b.s = "")

\* slip: Create without the test that the id is free
BuiltinCreateOverwrites(w, c, cd, a, f) ==
  LET assetID == a[1]
      put == PutState(w, assetID, Raw("Initialised"), f.put)
  IN  IF ~put.ok THEN Ret(w, c, cd, Raw(""), ErrorsNew(UnableMsg))
      ELSE Ret(put.w, c, cd, Raw(""), NoErr)

\* SimpleAsset.Create of the contract that uses the context's own call data
\* (ctx.GetCallData) and tests its length
BuiltinCreate(w, c, cd, a, f) ==
  LET assetID == a[1]
      existing == cd
      put == PutState(w, assetID, Raw("Initialised"), f.put)
  IN  IF ~LenIsZero(existing) THEN Ret(w, c, cd, Raw(""), Errorf(ExistsMsg, <<assetID>>))
      ELSE IF ~put.ok THEN Ret(w, c, cd, Raw(""), ErrorsNew(UnableMsg))
      ELSE Ret(put.w, c, cd, Raw(""), NoErr)

\* SimpleAsset.Update of the contract that uses the context's own call data
BuiltinUpdate(w, c, cd, a, f) ==
  LET assetID == a[1]
      value == a[2]
      existing == cd
      put == PutState(w, assetID, Raw(value), f.put)
  IN  IF LenIsZero(existing) THEN Ret(w, c, cd, Raw(""), Errorf(NoUpdateMsg, <<assetID>>))
      ELSE IF ~put.ok THEN Ret(w, c, cd, Raw(""), ErrorsNew(UnableMsg))
      ELSE Ret(put.w, c, cd, Raw(""), NoErr)

\* slip: Read without the length test
BuiltinReadNoCheck(w, c, cd, a, f) ==
  LET existing == cd
  IN  Ret(w, c, cd, String(existing), NoErr)

\* SimpleAsset.Read of the contract that uses the context's own call data
BuiltinRead(w, c, cd, a, f) ==
  LET assetID == a[1]
      existing == cd
  IN  IF LenIsZero(existing) THEN Ret(w, c, cd, Raw(""), Errorf(NoReadMsg, <<assetID>>))
      ELSE Ret(w, c, cd, String(existing), NoErr)

\* slip: Create without the check that the id is free
ComplexAssetCreateOverwrites(w, c, cd, a, f) ==
  LET assetID == a[1]
      ca == [Owner |-> "Regulator", Value |-> 0]
      put == PutComplexAsset(w, assetID, ca, f)
  IN  Ret(put.w, ca, cd, Raw(""), put.err)

\* ComplexAsset.Create: the fields are set on the contract instance itself
ComplexAssetCreate(w, c, cd, a, f) ==
  LET assetID == a[1]
      existing == cd
      ca == [Owner |-> "Regulator", Value |-> 0]
      put == PutComplexAsset(w, assetID, ca, f)
  IN  IF existing # Nil THEN Ret(w, c, cd, Raw(""), Errorf(ExistsMsg, <<assetID>>))
      ELSE Ret(put.w, ca, cd, Raw(""), put.err)

\* slip: UpdateOwner writes the owner into a new asset, dropping the value
ComplexAssetUpdateOwnerDropsValue(w, c, cd, a, f) ==
  LET assetID == a[1]
      newOwner == a[2]
      existing == cd
      un == JsonUnmarshal(existing, c)
      ca == [Owner |-> newOwner, Value |-> 0]
      put == PutComplexAsset(w, assetID, ca, f)
  IN  IF existing = Nil THEN Ret(w, c, cd, Raw(""), Errorf(NoUpdateMsg, <<assetID>>))
      ELSE IF ~un.ok THEN Ret(w, un.c, cd, Raw(""), Errorf(NotComplexMsg, <<assetID>>))
      ELSE Ret(put.w, ca, cd, Raw(""), put.err)

\* ComplexAsset.UpdateOwner
ComplexAssetUpdateOwner(w, c, cd, a, f) ==
  LET assetID == a[1]
      newOwner == a[2]
      existing == cd
      un == JsonUnmarshal(existing, c)
      ca == [un.c EXCEPT !.Owner = newOwner]
      put == PutComplexAsset(w, assetID, ca, f)
  IN  IF existing = Nil THEN Ret(w, c, cd, Raw(""), Errorf(NoUpdateMsg, <<assetID>>))
      ELSE IF ~un.ok THEN Ret(w, un.c, cd, Raw(""), Errorf(NotComplexMsg, <<assetID>>))
      ELSE Ret(put.w, ca, cd, Raw(""), put.err)

\* slip: UpdateValue looks for the asset before it converts the value
ComplexAssetUpdateValueExistenceFirst(w, c, cd, a, f) ==
  LET assetID == a[1]
      additionalValue == a[2]
      conv == Atoi(additionalValue)
      existing == cd
      un == JsonUnmarshal(existing, c)
      ca == [un.c EXCEPT !.Value = @ + conv.n]
      put == PutComplexAsset(w, assetID, ca, f)
  IN  IF existing = Nil
        THEN Ret(w, c, cd, Raw(""), Errorf(NoUpdateMsg, <<assetID>>))
      ELSE IF ~conv.ok THEN Ret(w, c, cd, Raw(""), Errorf(NotIntMsg, <<additionalValue>>))
      ELSE IF ~un.ok THEN Ret(w, un.c, cd, Raw(""), Errorf(NotComplexMsg, <<assetID>>))
      ELSE Ret(put.w, ca, cd, Raw(""), put.err)

\* ComplexAsset.UpdateValue: the conversion comes before the existence check
ComplexAssetUpdateValue(w, c, cd, a, f) ==
  LET assetID == a[1]
      additionalValue == a[2]
      conv == Atoi(additionalValue)
      existing == cd
      un == JsonUnmarshal(existing, c)
      ca == [un.c EXCEPT !.Value = @ + conv.n]
      put == PutComplexAsset(w, assetID, ca, f)
  IN  IF ~conv.ok THEN Ret(w, c, cd, Raw(""), Errorf(NotIntMsg, <<additionalValue>>))
      ELSE IF existing = Nil
        THEN Ret(w, c, cd, Raw(""), Errorf(NoUpdateMsg, <<assetID>>))
      ELSE IF ~un.ok THEN Ret(w, un.c, cd, Raw(""), Errorf(NotComplexMsg, <<assetID>>))
      ELSE Ret(put.w, ca, cd, Raw(""), put.err)

\* slip: Read returns the asset held in the instance
ComplexAssetReadReturnsInstance(w, c, cd, a, f) ==
  LET assetID == a[1]
      existing == cd
  IN  IF existing = Nil THEN Ret(w, c, cd, Raw(""), Errorf(NoReadMsg, <<assetID>>))
      ELSE Ret(w, c, cd, JsonMarshal(c), NoErr)

\* slip: Read writes the converted asset back
ComplexAssetReadWritesBack(w, c, cd, a, f) ==
  LET assetID == a[1]
      existing == cd
      un == JsonUnmarshal(existing, c)
      put == PutComplexAsset(w, assetID, un.c, f)
  IN  IF existing = Nil THEN Ret(w, c, cd, Raw(""), Errorf(NoReadMsg, <<assetID>>))
      ELSE IF ~un.ok THEN Ret(w, un.c, cd, Raw(""), Errorf(NotComplexMsg, <<assetID>>))
      ELSE Ret(put.w, un.c, cd, String(existing), NoErr)

\* slip: Read returns the stored bytes without converting them
ComplexAssetReadNoCheck(w, c, cd, a, f) ==
  LET assetID == a[1]
      existing == cd
  IN  IF existing = Nil THEN Ret(w, c, cd, Raw(""), Errorf(NoReadMsg, <<assetID>>))
      ELSE Ret(w, c, cd, String(existing), NoErr)

\* ComplexAsset.Read
ComplexAssetRead(w, c, cd, a, f) ==
  LET assetID == a[1]
      existing == cd
      un == JsonUnmarshal(existing, c)
  IN  IF existing = Nil THEN Ret(w, c, cd, Raw(""), Errorf(NoReadMsg, <<assetID>>))
      ELSE IF ~un.ok THEN Ret(w, un.c, cd, Raw(""), Errorf(NotComplexMsg, <<assetID>>))
      ELSE Ret(w, un.c, cd, String(existing), NoErr)

\* SimpleAsset.Create of the contract without hooks: it reads the state itself
PlainCreate(w, c, cd, a, f) ==
  LET assetID == a[1]
      get == GetState(w, assetID, f.get)
      put == PutState(w, assetID, Raw("Initialised"), f.put)
  IN  IF ~get.ok THEN Ret(w, c, cd, Raw(""), ErrorsNew(UnableMsg))
      ELSE IF get.b # Nil THEN Ret(w, c, cd, Raw(""), Errorf(ExistsMsg, <<assetID>>))
      ELSE IF ~put.ok THEN Ret(w, c, cd, Raw(""), ErrorsNew(UnableMsg))
      ELSE Ret(put.w, c, cd, Raw(""), NoErr)

\* slip: the asset id is stored in place of the value
PlainUpdateStoresId(w, c, cd, a, f) ==
  LET assetID == a[1]
      get == GetState(w, assetID, f.get)
      put == PutState(w, assetID, Raw(assetID), f.put)
  IN  IF ~get.ok THEN Ret(w, c, cd, Raw(""), ErrorsNew(UnableMsg))
      ELSE IF get.b = Nil THEN Ret(w, c, cd, Raw(""), Errorf(NoUpdateMsg, <<assetID>>))
      ELSE IF ~put.ok THEN Ret(w, c, cd, Raw(""), ErrorsNew(UnableMsg))
      ELSE Ret(put.w, c, cd, Raw(""), NoErr)

\* SimpleAsset.Update of the contract without hooks
PlainUpdate(w, c, cd, a, f) ==
  LET assetID == a[1]
      value == a[2]
      get == GetState(w, assetID, f.get)
      put == PutState(w, assetID, Raw(value), f.put)
  IN  IF ~get.ok THEN Ret(w, c, cd, Raw(""), ErrorsNew(UnableMsg))
      ELSE IF get.b = Nil THEN Ret(w, c, cd, Raw(""), Errorf(NoUpdateMsg, <<assetID>>))
      ELSE IF ~put.ok THEN Ret(w, c, cd, Raw(""), ErrorsNew(UnableMsg))
      ELSE Ret(put.w, c, cd, Raw(""), NoErr)

\* SimpleAsset.Read of the contract without hooks
PlainRead(w, c, cd, a, f) ==
  LET assetID == a[1]
      get == GetState(w, assetID, f.get)
  IN  IF ~get.ok THEN Ret(w, c, cd, Raw(""), ErrorsNew(UnableMsg))
      ELSE IF get.b = Nil THEN Ret(w, c, cd, Raw(""), Errorf(NoReadMsg, <<assetID>>))
      ELSE Ret(w, c, cd, String(get.b), NoErr)

\* slip: the hook reads the world state and does not store what it read
getAssetKeepsCallData(w, c, cd, a, f) ==
  LET assetID == a[1]
      get == GetState(w, assetID, f.get)
  IN  IF ~get.ok THEN Ret(w, c, cd, Raw(""), ErrorsNew(UnableMsg))
      ELSE Ret(w, c, cd, Raw(""), NoErr)

\* slip: the GetState error is dropped and the hook returns nil
getAssetIgnoresError(w, c, cd, a, f) ==
  LET assetID == a[1]
      get == GetState(w, assetID, f.get)
  IN  Ret(w, c, get.b, Raw(""), NoErr)

\* getAsset: stores the world state's value for assetID in the call data
getAsset(w, c, cd, a, f) ==
  LET assetID == a[1]
      get == GetState(w, assetID, f.get)
  IN  IF ~get.ok THEN Ret(w, c, cd, Raw(""), ErrorsNew(UnableMsg))
      ELSE Ret(w, c, get.b, Raw(""), NoErr)

\* slip: the error message leaves the arguments out
handleUnknownDropsArgs(w, c, cd, a, f) ==
  Ret(w, c, cd, Raw(""), Errorf(UnknownMsg, <<>>))

\* handleUnknown(args []string)
handleUnknown(w, c, cd, a, f) ==
  LET args == a[1]
  IN  Ret(w, c, cd, Raw(""), Errorf(UnknownMsg, args))

\* ------------------------------------------------------ declared shapes
\* parameter kinds: "ctx" the transaction context type, "string", "slice"
\* the []string type, "int" any other type
AllowedKinds == {"ctx", "string", "slice"}
Kinds == AllowedKinds \cup {"int"}

\* the exported functions of each contract struct with their parameters
SimpleAssetFns ==
  [Create |-> <<"ctx", "string">>,
   Update |-> <<"ctx", "string", "string">>,
   Read   |-> <<"ctx", "string">>]

\* slip: ComplexAsset's put is exported
ComplexAssetFnsWithPut ==
  [Create      |-> <<"ctx", "string">>,
   UpdateOwner |-> <<"ctx", "string", "string">>,
   UpdateValue |-> <<"ctx", "string", "string">>,
   Read        |-> <<"ctx", "string">>,
   put         |-> <<"ctx", "string">>]

ComplexAssetFns ==
  [Create      |-> <<"ctx", "string">>,
   UpdateOwner |-> <<"ctx", "string", "string">>,
   UpdateValue |-> <<"ctx", "string", "string">>,
   Read        |-> <<"ctx", "string">>]

\* ComplexAsset of the colour tutorial: UpdateValue takes an int,
\* UpdateColour a []string
ColourAssetFns ==
  [Create       |-> <<"ctx", "string">>,
   UpdateOwner  |-> <<"ctx", "string", "string">>,
   UpdateValue  |-> <<"ctx", "string", "int">>,
   UpdateColour |-> <<"ctx", "string", "slice">>,
   Read         |-> <<"ctx", "string">>]

getAssetParams == <<"ctx", "string">>
handleUnknownParams == <<"slice">>
\* handleUnknown of the tutorials that read the request from the stub
handleUnknownCtxParams == <<"ctx">>

HookParams(h) ==
  IF h = "getAsset" THEN getAssetParams
  ELSE IF h = "handleUnknown" THEN handleUnknownParams
  ELSE IF h = "handleUnknownCtx" THEN handleUnknownCtxParams
  ELSE <<>>

\* a contract as main hands it to CreateNewChaincode; ns = "" and a hook
\* of "" mean the setter was not called
Contract(struct, fns, ns, before, after, unknown) ==
  [struct |-> struct, fns |-> fns, ns |-> ns,
   before |-> before, after |-> after, unknown |-> unknown]

SimpleNs == "org.example.assets.simple"
ComplexNs == "org.example.assets.complex"

\* slip: each contract is given the other's namespace
mainMultiSwapped ==
  << Contract("SimpleAsset", SimpleAssetFns, ComplexNs, "getAsset", "", "handleUnknown"),
     Contract("ComplexAsset", ComplexAssetFns, SimpleNs, "getAsset", "", "handleUnknown") >>

\* main of the multiple asset contract
mainMulti ==
  << Contract("SimpleAsset", SimpleAssetFns, SimpleNs, "getAsset", "", "handleUnknown"),
     Contract("ComplexAsset", ComplexAssetFns, ComplexNs, "getAsset", "", "handleUnknown") >>

\* main of the simple asset contract: no hooks, no namespace
mainSimple ==
  << Contract("PlainSimpleAsset", SimpleAssetFns, "", "", "", "") >>

\* main of the extended simple asset contract
mainExtended ==
  << Contract("SimpleAsset", SimpleAssetFns, "", "getAsset", "", "handleUnknown") >>

\* main of the extended simple asset contract that uses ctx.SetCallData
mainBuiltin ==
  << Contract("BuiltinSimpleAsset", SimpleAssetFns, "", "getAsset", "", "handleUnknown") >>

\* the extended simple asset contract with getAsset also set as after-hook
mainExtendedAfter ==
  << Contract("SimpleAsset", SimpleAssetFns, "", "getAsset", "getAsset", "handleUnknown") >>

\* main of the colour tutorial
mainColour ==
  << Contract("SimpleAsset", SimpleAssetFns, SimpleNs, "getAsset", "", "handleUnknownCtx"),
     Contract("ComplexAsset", ColourAssetFns, ComplexNs, "getAsset", "", "handleUnknownCtx") >>

\* ------------------------------------------------------------ the router
DefaultNamespace == "contract"

Namespace(g) == IF g.ns = "" THEN DefaultNamespace ELSE g.ns

\* the signature rule, checked parameter by parameter
RECURSIVE ScanParams(_, _)
ScanParams(p, i) ==
  IF i > Len(p) THEN TRUE
  ELSE /\ p[i] \in AllowedKinds
       /\ (p[i] = "ctx" => i = 1)
       /\ (p[i] = "slice" => i = Len(p))
       /\ ScanParams(p, i + 1)

\* slip: the kinds are checked, their positions are not
ValidParamsAnyOrder(p) == \A i \in 1..Len(p) : p[i] \in AllowedKinds

\* slip: the positions are checked, the kinds are not
ValidParamsAnyKind(p) ==
  \A i \in 1..Len(p) : (p[i] = "ctx" => i = 1) /\ (p[i] = "slice" => i = Len(p))

ValidParams(p) == ScanParams(p, 1)

\* a before- or after-hook is an allowed function whose parameters are a
\* prefix of the parameters of every function it runs around
IsPrefix(hp, p) == Len(hp) <= Len(p) /\ SubSeq(p, 1, Len(hp)) = hp

ValidHook(h, fns) ==
  h = "" \/ (ValidParams(HookParams(h)) /\ \A n \in DOMAIN fns : IsPrefix(HookParams(h), fns[n]))

\* an unknown-function hook takes the context alone or the arguments alone
ValidUnknown(h) == h = "" \/ HookParams(h) \in {<<"ctx">>, <<"slice">>}

ValidContract(g) ==
  /\ \A n \in DOMAIN g.fns : ValidParams(g.fns[n])
  /\ ValidHook(g.before, g.fns)
  /\ ValidHook(g.after, g.fns)
  /\ ValidUnknown(g.unknown)

\* slip: the namespaces are compared as set, an unset one not as the default
UniqueNamespacesAsSet(gs) ==
  \A i, j \in 1..Len(gs) : gs[i].ns = gs[j].ns => i = j

UniqueNamespaces(gs) ==
  \A i, j \in 1..Len(gs) : Namespace(gs[i]) = Namespace(gs[j]) => i = j

\* contractapi.CreateNewChaincode: nil when the chaincode starts serving,
\* an error when a contract is refused
CreateNewChaincode(gs) ==
  IF \E i \in 1..Len(gs) : ~ValidContract(gs[i]) THEN ErrorsNew("RegistrationError")
  ELSE IF ~UniqueNamespaces(gs) THEN ErrorsNew("RegistrationError")
  ELSE NoErr

\* slip: a namespace nobody owns falls to the first contract
ResolveGroupFallsBack(gs, ns) ==
  IF \E i \in 1..Len(gs) : Namespace(gs[i]) = ns
    THEN CHOOSE i \in 1..Len(gs) : Namespace(gs[i]) = ns
    ELSE 1

\* the index of the contract that owns namespace ns, 0 when none does
ResolveGroup(gs, ns) ==
  IF \E i \in 1..Len(gs) : Namespace(gs[i]) = ns
    THEN CHOOSE i \in 1..Len(gs) : Namespace(gs[i]) = ns
    ELSE 0

\* the positional arguments for parameters p from the strings args: one
\* string per string parameter, the rest to a trailing []string; a hook
\* (exact = FALSE) is passed the leading arguments only
StringCount(p) == Cardinality({i \in 1..Len(p) : p[i] = "string"})
HasSlice(p) == Len(p) > 0 /\ p[Len(p)] = "slice"

\* slip: surplus strings are dropped instead of refused
ArityOkAllowsExtra(p, args, exact) == Len(args) >= StringCount(p)

\* the strings fit the parameters: one per string parameter, and no more
\* unless a trailing []string takes them (a hook, exact = FALSE, is passed
\* the leading arguments and ignores the others)
ArityOk(p, args, exact) ==
  /\ Len(args) >= StringCount(p)
  /\ (exact /\ ~HasSlice(p) => Len(args) = StringCount(p))

\* slip: the trailing []string is given every string of the request
PositionalAllToSlice(p, args) ==
  LET k == StringCount(p)
      rest == IF HasSlice(p) THEN << args >> ELSE <<>>
  IN  SubSeq(args, 1, k) \o rest

\* slip: a function without []string is handed every string of the request
PositionalPassesAll(p, args) ==
  IF HasSlice(p) THEN SubSeq(args, 1, StringCount(p)) \o << SubSeq(args, StringCount(p) + 1, Len(args)) >>
  ELSE args

\* the positional values, the context excluded
Positional(p, args) ==
  LET k == StringCount(p)
      rest == IF HasSlice(p) THEN << SubSeq(args, k + 1, Len(args)) >> ELSE <<>>
  IN  SubSeq(args, 1, k) \o rest

Marshal(p, args, exact) ==
  IF ArityOk(p, args, exact)
    THEN [ok |-> TRUE, vals |-> Positional(p, args)]
    ELSE [ok |-> FALSE, vals |-> <<>>]

ArgumentError == ErrorsNew("ArgumentError")
FunctionNotFound(fn) == Errorf("Function %s not found", <<fn>>)
ContractNotFound == ErrorsNew("Contract not found")

\* the values a function declares to return: a string, an error, both or
\* neither
ReturnShapes == [str : BOOLEAN, err : BOOLEAN]
ErrorOnly == [str |-> FALSE, err |-> TRUE]
StringAndError == [str |-> TRUE, err |-> TRUE]

\* the declared returns of the exported functions: Read returns
\* (string, error), the others error
Returns(fn) == IF fn = "Read" THEN StringAndError ELSE ErrorOnly

\* slip: the string is returned along with the error
ResponseKeepsString(d, str, err) ==
  [payload |-> IF d.str THEN str ELSE Raw(""), err |-> IF d.err THEN err ELSE NoErr]

\* the response made of a function's return values: a returned error is the
\* response; with no error the string, if one is declared, is the payload
Response(d, str, err) ==
  IF d.err /\ ~err.nil THEN [payload |-> Raw(""), err |-> err]
  ELSE IF d.str THEN [payload |-> str, err |-> NoErr]
  ELSE [payload |-> Raw(""), err |-> NoErr]

\* slip: after the before-hook the function is skipped
BeforeNextSkipsFunction(err) == IF err.nil THEN "AFTER" ELSE "DONE"

\* a before-hook's error ends the invocation; otherwise the function runs
BeforeNext(err) == IF err.nil THEN "DISPATCH" ELSE "DONE"

\* slip: the after-hook's error is dropped
AfterResponseKeepsPayload(r, err) == r

\* the response after the after-hook returned err
AfterResponse(r, err) == IF err.nil THEN r ELSE [payload |-> Raw(""), err |-> err]

\* the function a contract struct binds to an exported name
CallHandler(struct, fn, w, c, cd, a, f) ==
  CASE struct = "SimpleAsset" /\ fn = "Create" -> SimpleAssetCreate(w, c, cd, a, f)
    [] struct = "SimpleAsset" /\ fn = "Update" -> SimpleAssetUpdate(w, c, cd, a, f)
    [] struct = "SimpleAsset" /\ fn = "Read" -> SimpleAssetRead(w, c, cd, a, f)
    [] struct = "ComplexAsset" /\ fn = "Create" -> ComplexAssetCreate(w, c, cd, a, f)
    [] struct = "ComplexAsset" /\ fn = "UpdateOwner" -> ComplexAssetUpdateOwner(w, c, cd, a, f)
    [] struct = "ComplexAsset" /\ fn = "UpdateValue" -> ComplexAssetUpdateValue(w, c, cd, a, f)
    [] struct = "ComplexAsset" /\ fn = "Read" -> ComplexAssetRead(w, c, cd, a, f)
    [] struct = "PlainSimpleAsset" /\ fn = "Create" -> PlainCreate(w, c, cd, a, f)
    [] struct = "PlainSimpleAsset" /\ fn = "Update" -> PlainUpdate(w, c, cd, a, f)
    [] struct = "PlainSimpleAsset" /\ fn = "Read" -> PlainRead(w, c, cd, a, f)
    [] struct = "BuiltinSimpleAsset" /\ fn = "Create" -> BuiltinCreate(w, c, cd, a, f)
    [] struct = "BuiltinSimpleAsset" /\ fn = "Update" -> BuiltinUpdate(w, c, cd, a, f)
    [] struct = "BuiltinSimpleAsset" /\ fn = "Read" -> BuiltinRead(w, c, cd, a, f)

CallHook(h, w, c, cd, a, f) ==
  CASE h = "getAsset" -> getAsset(w, c, cd, a, f)
    [] h = "handleUnknown" -> handleUnknown(w, c, cd, a, f)

\* ------------------------------------------------- the serving chaincode
VARIABLES
  prog,      \* the main function that built the chaincode
  world,     \* the world state: asset id -> bytes
  ca,        \* the fields of the registered ComplexAsset instance
  pc,        \* lifecycle stage of the invocation being served
  req,       \* the request being served
  callData,  \* the call data of the invocation's transaction context
  resp,      \* the response of the invocation
  calls,     \* the functions invoked for the request so far, in order
  pre,       \* world state and contract instance when the request arrived
  ncalls,    \* requests received so far
  lastw,     \* per asset id, the last write a function completed without error
             \* and the contract that created the id
  reg,       \* a main function on its way through CreateNewChaincode
  mar,       \* one application of the argument marshaller
  ret,       \* one conversion of a function's return values to a response
  eq,        \* two simple asset contracts served side by side
  col,       \* the ComplexAsset contract of the colour tutorial, being served
  par,       \* two invocations of ComplexAsset functions served at the same time
  twin       \* two copies of the chaincode with two namespaces

vars == <<prog, world, ca, pc, req, callData, resp, calls, pre, ncalls, lastw,
          reg, mar, ret, eq, col, par, twin>>

\* the variables of the serving chaincode, at rest in the other specifications
servingVars == <<prog, world, ca, pc, req, callData, resp, calls, pre, ncalls, lastw>>

Chaincode(p) ==
  CASE p = "multi" -> mainMulti
    [] p = "simple" -> mainSimple
    [] p = "extendedAfter" -> mainExtendedAfter

ServedPrograms == {"multi", "simple", "extendedAfter"}

NoReq == [ns |-> "", fn |-> "", args |-> <<>>]
NoResp == [payload |-> Raw(""), err |-> NoErr]
ErrResp(e) == [payload |-> Raw(""), err |-> e]
NoReg == [gs |-> <<>>, st |-> "none", served |-> 0]
NoMar == [p |-> <<>>, args |-> <<>>, done |-> FALSE, out |-> [ok |-> FALSE, vals |-> <<>>]]
NoRet == [d |-> [str |-> FALSE, err |-> FALSE], s |-> Raw(""), e |-> NoErr,
          done |-> FALSE, out |-> NoResp]
NoEq == [st |-> "none"]
NoCol == [st |-> "none"]
NoPar == [st |-> "none"]
NoTwin == [st |-> "none"]

\* the requests a caller submits
Namespaces == {SimpleNs, ComplexNs, DefaultNamespace, "org.example.assets.other"}
\* the names of the exported functions, a name nothing is called by, and the
\* names of the hooks and of ComplexAsset's private put
FnNames ==
  {"Create", "Update", "Read", "UpdateOwner", "UpdateValue", "Delete",
   "getAsset", "handleUnknown", "put"}

RECURSIVE SeqsUpTo(_, _)
SeqsUpTo(S, n) ==
  IF n = 0 THEN {<<>>}
  ELSE LET shorter == SeqsUpTo(S, n - 1)
       IN  shorter \cup {Append(q, x) : q \in {z \in shorter : Len(z) = n - 1}, x \in S}

\* no arguments, an asset id, or an asset id, a value and further strings
\* (no function takes more than two strings, so the further ones count by
\* their number only)
ArgLists ==
  {<<>>} \cup {<<id>> : id \in AssetIDs}
         \cup {<<id, v>> \o extra :
                 id \in AssetIDs, v \in ArgVals, extra \in SeqsUpTo({"Updated"}, MaxArgs - 2)}

GroupOf(p, ns) == Chaincode(p)[ResolveGroup(Chaincode(p), ns)]
Group == GroupOf(prog, req.ns)

\* the functions that put a value at the asset id they are given
WritingFns == {"Create", "Update", "UpdateOwner", "UpdateValue"}
NoWrite == [fn |-> "", v |-> "", by |-> ""]
\* the record of a write: the function, the value passed and the contract
\* whose Create made the id (old is the record the id had)
Write(old, struct, fn, a) ==
  [fn |-> fn,
   v |-> IF Len(a) >= 2 THEN a[2] ELSE "",
   by |-> IF fn = "Create" THEN struct ELSE old.by]

\* one call of a function or hook: cd is the context's call data when it
\* was entered, out the call data when it returned
Call(stage, struct, fn, args, f, cd, out, err) ==
  [stage |-> stage, struct |-> struct, fn |-> fn, args |-> args, f |-> f,
   cd |-> cd, out |-> out, err |-> err]

\* slip: the context of the last request is used again
ReusedCallData(old) == old

\* the call data of the context made for a request: the field's zero
\* value, whatever the context of an earlier request held
NewCallData(old) == Nil

\* no chaincode is serving
IdleServing ==
  /\ prog = "none"
  /\ world = [id \in AssetIDs |-> Nil]
  /\ ca = [Owner |-> "", Value |-> 0]
  /\ pc = "IDLE"
  /\ req = NoReq
  /\ callData = Nil
  /\ resp = NoResp
  /\ calls = <<>>
  /\ pre = [w |-> world, c |-> ca]
  /\ ncalls = 0
  /\ lastw = [id \in AssetIDs |-> NoWrite]

Init ==
  /\ prog \in ServedPrograms
  /\ CreateNewChaincode(Chaincode(prog)).nil
  /\ world = [id \in AssetIDs |-> Nil]
  /\ ca = [Owner |-> "", Value |-> 0]
  /\ pc = "IDLE"
  /\ req = NoReq
  /\ callData = Nil
  /\ resp = NoResp
  /\ calls = <<>>
  /\ pre = [w |-> world, c |-> ca]
  /\ ncalls = 0
  /\ lastw = [id \in AssetIDs |-> NoWrite]
  /\ reg = NoReg
  /\ mar = NoMar
  /\ ret = NoRet
  /\ eq = NoEq
  /\ col = NoCol
  /\ par = NoPar
  /\ twin = NoTwin

\* START: a request arrives; its namespace and function are resolved and a
\* fresh transaction context is built.  A name that is no function of the
\* contract goes to the unknown-function handler every time, whatever hooks
\* the contract has; the arguments of a known function are marshalled for it.
Submit(ns, fn, args) ==
  /\ pc = "IDLE"
  /\ ncalls < MaxCalls
  /\ ~(fn = "UpdateValue" /\ Len(args) > 0 /\ world[args[1]].value >= MaxValue)
  /\ req' = [ns |-> ns, fn |-> fn, args |-> args]
  /\ ncalls' = ncalls + 1
  /\ callData' = NewCallData(callData)
  /\ calls' = <<>>
  /\ pre' = [w |-> world, c |-> ca]
  /\ IF ResolveGroup(Chaincode(prog), ns) = 0
       THEN pc' = "DONE" /\ resp' = ErrResp(ContractNotFound)
       ELSE IF fn \notin DOMAIN GroupOf(prog, ns).fns
         THEN pc' = "UNKNOWN" /\ resp' = NoResp
         ELSE IF ~Marshal(GroupOf(prog, ns).fns[fn], args, TRUE).ok
           THEN pc' = "DONE" /\ resp' = ErrResp(ArgumentError)
           ELSE pc' = "BEFORE" /\ resp' = NoResp
  /\ UNCHANGED <<prog, world, ca, lastw, reg, mar, ret, eq, col, par, twin>>

\* BEFORE: the contract's before-hook, with the leading arguments
Before ==
  /\ pc = "BEFORE"
  /\ IF Group.before = ""
       THEN pc' = "DISPATCH" /\ UNCHANGED <<world, ca, callData, resp, calls>>
       ELSE LET m == Marshal(HookParams(Group.before), req.args, FALSE)
            IN  IF ~m.ok
                  THEN /\ pc' = "DONE"
                       /\ resp' = ErrResp(ArgumentError)
                       /\ UNCHANGED <<world, ca, callData, calls>>
                  ELSE \E getFail \in BOOLEAN :
                         LET f == [get |-> getFail, put |-> FALSE]
                             r == CallHook(Group.before, world, ca, callData, m.vals, f)
                         IN  /\ world' = r.w
                             /\ ca' = r.c
                             /\ callData' = r.cd
                             /\ calls' = Append(calls, Call("BEFORE", "", Group.before, m.vals, f, callData, r.cd, r.err))
                             /\ pc' = BeforeNext(r.err)
                             /\ resp' = IF r.err.nil THEN resp ELSE ErrResp(r.err)
  /\ UNCHANGED <<prog, req, pre, ncalls, lastw, reg, mar, ret, eq, col, par, twin>>

\* DISPATCH: the named function of the resolved contract
Dispatch ==
  /\ pc = "DISPATCH"
  /\ \E getFail \in BOOLEAN, putFail \in BOOLEAN :
       LET f == [get |-> getFail, put |-> putFail]
           m == Marshal(Group.fns[req.fn], req.args, TRUE)
           r == CallHandler(Group.struct, req.fn, world, ca, callData, m.vals, f)
       IN  /\ world' = r.w
           /\ ca' = r.c
           /\ callData' = r.cd
           /\ calls' = Append(calls, Call("DISPATCH", Group.struct, req.fn, m.vals, f, callData, r.cd, r.err))
           /\ resp' = Response(Returns(req.fn), r.payload, r.err)
           /\ lastw' = IF r.err.nil /\ req.fn \in WritingFns
                         THEN [lastw EXCEPT ![m.vals[1]] = Write(@, Group.struct, req.fn, m.vals)]
                         ELSE lastw
           /\ pc' = IF r.err.nil THEN "AFTER" ELSE "DONE"
  /\ UNCHANGED <<prog, req, pre, ncalls, reg, mar, ret, eq, col, par, twin>>

\* UNKNOWN: the name is no function of the contract; the unknown-function
\* hook (or the default error) gives the response and AFTER is skipped
Unknown ==
  /\ pc = "UNKNOWN"
  /\ IF Group.unknown = ""
       THEN /\ resp' = ErrResp(FunctionNotFound(req.fn))
            /\ UNCHANGED <<world, ca, callData, calls>>
       ELSE LET f == [get |-> FALSE, put |-> FALSE]
                m == Marshal(HookParams(Group.unknown), req.args, FALSE)
                r == CallHook(Group.unknown, world, ca, callData, m.vals, f)
            IN  /\ world' = r.w
                /\ ca' = r.c
                /\ callData' = r.cd
                /\ calls' = Append(calls, Call("UNKNOWN", "", Group.unknown, m.vals, f, callData, r.cd, r.err))
                /\ resp' = Response(ErrorOnly, r.payload, r.err)
  /\ pc' = "DONE"
  /\ UNCHANGED <<prog, req, pre, ncalls, lastw, reg, mar, ret, eq, col, par, twin>>

\* AFTER: the contract's after-hook; its error replaces the response
After ==
  /\ pc = "AFTER"
  /\ IF Group.after = ""
       THEN UNCHANGED <<world, ca, callData, resp, calls>>
       ELSE LET m == Marshal(HookParams(Group.after), req.args, FALSE)
            IN  \E getFail \in BOOLEAN :
                  LET f == [get |-> getFail, put |-> FALSE]
                      r == CallHook(Group.after, world, ca, callData, m.vals, f)
                  IN  /\ world' = r.w
                      /\ ca' = r.c
                      /\ callData' = r.cd
                      /\ calls' = Append(calls, Call("AFTER", "", Group.after, m.vals, f, callData, r.cd, r.err))
                      /\ resp' = AfterResponse(resp, r.err)
  /\ pc' = "DONE"
  /\ UNCHANGED <<prog, req, pre, ncalls, lastw, reg, mar, ret, eq, col, par, twin>>

\* DONE: the response goes back to the caller and the context is dropped
Respond ==
  /\ pc = "DONE"
  /\ pc' = "IDLE"
  /\ req' = NoReq
  /\ resp' = NoResp
  /\ calls' = <<>>
  /\ callData' = callData
  /\ pre' = [w |-> world, c |-> ca]
  /\ UNCHANGED <<prog, world, ca, ncalls, lastw, reg, mar, ret, eq, col, par, twin>>

Next ==
  \/ \E ns \in Namespaces, fn \in FnNames, args \in ArgLists : Submit(ns, fn, args)
  \/ Before
  \/ Dispatch
  \/ Unknown
  \/ After
  \/ Respond

Spec == Init /\ [][Next]_vars

\* ------------------------------------------------------- registration
\* main hands its contracts to CreateNewChaincode; on an error it prints
\* the error and returns, otherwise the chaincode serves requests.

\* one contract with one exported function of every parameter list
SigCandidates ==
  { << Contract("Candidate", [F |-> p], "", "", "", "") >> : p \in SeqsUpTo(Kinds, MaxParams) }

\* up to MaxGroups contracts, each with or without a namespace of its own
NsChoices == {"", DefaultNamespace, SimpleNs, ComplexNs}

NsCandidates ==
  { [i \in 1..Len(q) |-> Contract("SimpleAsset", SimpleAssetFns, q[i], "", "", "")] :
      q \in SeqsUpTo(NsChoices, MaxGroups) \ {<<>>} }

Mains == {mainMulti, mainSimple, mainExtended, mainBuiltin, mainExtendedAfter, mainColour}

InitReg ==
  /\ reg \in [gs : SigCandidates \cup NsCandidates \cup Mains, st : {"main"}, served : {0}]
  /\ prog = "none"
  /\ world = [id \in AssetIDs |-> Nil]
  /\ ca = [Owner |-> "", Value |-> 0]
  /\ pc = "IDLE"
  /\ req = NoReq
  /\ callData = Nil
  /\ resp = NoResp
  /\ calls = <<>>
  /\ pre = [w |-> world, c |-> ca]
  /\ ncalls = 0
  /\ lastw = [id \in AssetIDs |-> NoWrite]
  /\ mar = NoMar
  /\ ret = NoRet
  /\ eq = NoEq
  /\ col = NoCol
  /\ par = NoPar
  /\ twin = NoTwin

\* main calls contractapi.CreateNewChaincode
Register ==
  /\ reg.st = "main"
  /\ reg' = [reg EXCEPT !.st = IF CreateNewChaincode(reg.gs).nil THEN "serving" ELSE "refused"]
  /\ UNCHANGED <<servingVars, mar, ret, eq, col, par, twin>>

\* the started chaincode serves a request
Serve ==
  /\ reg.st = "serving"
  /\ reg.served < MaxCalls
  /\ reg' = [reg EXCEPT !.served = @ + 1]
  /\ UNCHANGED <<servingVars, mar, ret, eq, col, par, twin>>

NextReg ==
  \/ Register
  \/ Serve

SpecReg == InitReg /\ [][NextReg]_vars

\* -------------------------------------------------------- marshalling
\* the marshaller applied to the parameters of a registered function and
\* the strings of a request
MarVals == {"ASSET_1", "red", "blue"}

MarShapes == {p \in SeqsUpTo(AllowedKinds, MaxParams) : ValidParams(p)}

InitMar ==
  /\ mar \in [p : MarShapes, args : SeqsUpTo(MarVals, MaxArgs), done : {FALSE},
              out : {[ok |-> FALSE, vals |-> <<>>]}]
  /\ prog = "none"
  /\ world = [id \in AssetIDs |-> Nil]
  /\ ca = [Owner |-> "", Value |-> 0]
  /\ pc = "IDLE"
  /\ req = NoReq
  /\ callData = Nil
  /\ resp = NoResp
  /\ calls = <<>>
  /\ pre = [w |-> world, c |-> ca]
  /\ ncalls = 0
  /\ lastw = [id \in AssetIDs |-> NoWrite]
  /\ reg = NoReg
  /\ ret = NoRet
  /\ eq = NoEq
  /\ col = NoCol
  /\ par = NoPar
  /\ twin = NoTwin

DoMarshal ==
  /\ ~mar.done
  /\ mar' = [mar EXCEPT !.done = TRUE, !.out = Marshal(mar.p, mar.args, TRUE)]
  /\ UNCHANGED <<servingVars, reg, ret, eq, col, par, twin>>

NextMar == DoMarshal

SpecMarshal == InitMar /\ [][NextMar]_vars

\* ------------------------------------------------------ return values
\* what a function may hand back
RetStrings == {"", "Updated", "Initialised", "1", "ASSET_1"}
RetErrors == {NoErr, ErrorsNew(UnableMsg), Errorf(NoReadMsg, <<"ASSET_1">>)}

InitRet ==
  /\ ret \in [d : ReturnShapes, s : {Raw(x) : x \in RetStrings}, e : RetErrors,
              done : {FALSE}, out : {NoResp}]
  /\ IdleServing
  /\ reg = NoReg
  /\ mar = NoMar
  /\ eq = NoEq
  /\ col = NoCol
  /\ par = NoPar
  /\ twin = NoTwin

\* the function returned; its values become the response
DoReturn ==
  /\ ~ret.done
  /\ ret' = [ret EXCEPT !.done = TRUE, !.out = Response(ret.d, ret.s, ret.e)]
  /\ UNCHANGED <<servingVars, reg, mar, eq, col, par, twin>>

NextRet == DoReturn

SpecReturn == InitRet /\ [][NextRet]_vars

\* ------------------------------------------------- side by side
\* one invocation of a known function of contract g, served from world
\* state w to its response: the before-hook, if set, then the function
Invoke(g, w, fn, args, f) ==
  LET c0 == [Owner |-> "", Value |-> 0]
      m == Marshal(g.fns[fn], args, TRUE)
      run(w1, cd) ==
        LET h == CallHandler(g.struct, fn, w1, c0, cd, m.vals, f)
        IN  [w |-> h.w, resp |-> Response(Returns(fn), h.payload, h.err)]
  IN  IF ~m.ok THEN [w |-> w, resp |-> ErrResp(ArgumentError)]
      ELSE IF g.before = "" THEN run(w, Nil)
      ELSE LET b == CallHook(g.before, w, c0, Nil,
                             Marshal(HookParams(g.before), args, FALSE).vals, f)
           IN  IF BeforeNext(b.err) = "DONE"
                 THEN [w |-> b.w, resp |-> ErrResp(b.err)]
                 ELSE run(b.w, b.cd)

\* the extended contract that is compared with the simple asset contract
Extended(impl) == IF impl = "custom" THEN mainExtended[1] ELSE mainBuiltin[1]

\* correctly-formed requests to the simple asset contract
EqRequests ==
  {[fn |-> "Create", args |-> <<id>>] : id \in AssetIDs}
    \cup {[fn |-> "Read", args |-> <<id>>] : id \in AssetIDs}
    \cup {[fn |-> "Update", args |-> <<id, v>>] : id \in AssetIDs, v \in ArgVals}

InitEq ==
  /\ eq \in [impl : {"custom", "builtin"},
              wA : {[id \in AssetIDs |-> Nil]}, wB : {[id \in AssetIDs |-> Nil]},
              rA : {NoResp}, rB : {NoResp}, r : {[fn |-> "", args |-> <<>>]},
              n : {0}, wroteEmpty : {FALSE},
              made : {{}}, wasMade : {FALSE}, wasEmpty : {FALSE}]
  /\ IdleServing
  /\ reg = NoReg
  /\ mar = NoMar
  /\ ret = NoRet
  /\ col = NoCol
  /\ par = NoPar
  /\ twin = NoTwin

\* the same request is served by the simple asset contract (A) and by the
\* extended one (B), the state store failing for both or for neither
EqInvoke(r, f) ==
  /\ eq.n < MaxCalls
  /\ LET a == Invoke(mainSimple[1], eq.wA, r.fn, r.args, f)
         b == Invoke(Extended(eq.impl), eq.wB, r.fn, r.args, f)
     IN  eq' = [eq EXCEPT !.wA = a.w, !.wB = b.w, !.rA = a.resp, !.rB = b.resp,
                          !.r = r, !.n = @ + 1,
                          !.wroteEmpty = @ \/ (r.fn = "Update" /\ r.args[2] = ""
                                                 /\ a.resp.err.nil),
                          !.made = IF r.fn = "Create" /\ b.resp.err.nil
                                     THEN @ \cup {r.args[1]} ELSE @,
                          !.wasMade = r.args[1] \in eq.made,
                          !.wasEmpty = eq.wB[r.args[1]] = Raw("")]
  /\ UNCHANGED <<servingVars, reg, mar, ret, col, par, twin>>

NextEq ==
  \E r \in EqRequests, getFail \in BOOLEAN, putFail \in BOOLEAN :
    EqInvoke(r, [get |-> getFail, put |-> putFail])

SpecEquiv == InitEq /\ [][NextEq]_vars

\* ------------------------------------- ComplexAsset of the colour tutorial
\* The ComplexAsset struct with the Colour field and its functions as the
\* colour tutorial ends with them, called with arguments of the declared
\* types (UpdateValue an int, UpdateColour a []string) after getAsset.

\* the JSON text of a complex asset with its colour list; a nil slice and
\* an empty one are both the list without colours
NilC == [kind |-> "nil", s |-> "", owner |-> "", value |-> 0, colour |-> <<>>]
JsonColour(o, v, cl) == [kind |-> "json", s |-> "", owner |-> o, value |-> v, colour |-> cl]

\* json.Marshal(&ca) / json.Unmarshal(existing, ca) with the colour field
JsonMarshalColour(c) == JsonColour(c.Owner, c.Value, c.Colour)
JsonUnmarshalColour(b, c) ==
  IF b.kind = "json"
    THEN [ok |-> TRUE, c |-> [Owner |-> b.owner, Value |-> b.value, Colour |-> b.colour]]
    ELSE [ok |-> FALSE, c |-> c]

\* CustomTransactionContext.PutComplexAsset of the colour tutorial
PutColourAsset(w, id, c, f) ==
  LET put == PutState(w, id, JsonMarshalColour(c), f.put)
  IN  IF put.ok THEN [w |-> put.w, err |-> NoErr]
                ELSE [w |-> w, err |-> ErrorsNew(UnableMsg)]

\* slip: Create sets the owner only
ColourCreateKeepsValue(w, c, cd, a, f) ==
  LET assetID == a[1]
      existing == cd
      ca1 == [c EXCEPT !.Owner = "Regulator"]
      put == PutColourAsset(w, assetID, ca1, f)
  IN  IF existing # NilC THEN Ret(w, c, cd, Raw(""), Errorf(ExistsMsg, <<assetID>>))
      ELSE Ret(put.w, ca1, cd, Raw(""), put.err)

\* ComplexAsset.Create: Owner and Value are set on the contract instance,
\* Colour is left as the instance has it
ColourCreate(w, c, cd, a, f) ==
  LET assetID == a[1]
      existing == cd
      ca1 == [c EXCEPT !.Owner = "Regulator", !.Value = 0]
      put == PutColourAsset(w, assetID, ca1, f)
  IN  IF existing # NilC THEN Ret(w, c, cd, Raw(""), Errorf(ExistsMsg, <<assetID>>))
      ELSE Ret(put.w, ca1, cd, Raw(""), put.err)

\* ComplexAsset.UpdateOwner
ColourUpdateOwner(w, c, cd, a, f) ==
  LET assetID == a[1]
      newOwner == a[2]
      existing == cd
      un == JsonUnmarshalColour(existing, c)
      ca1 == [un.c EXCEPT !.Owner = newOwner]
      put == PutColourAsset(w, assetID, ca1, f)
  IN  IF existing = NilC THEN Ret(w, c, cd, Raw(""), Errorf(NoUpdateMsg, <<assetID>>))
      ELSE IF ~un.ok THEN Ret(w, un.c, cd, Raw(""), Errorf(NotComplexMsg, <<assetID>>))
      ELSE Ret(put.w, ca1, cd, Raw(""), put.err)

\* ComplexAsset.UpdateValue(ctx, assetID, additionalValue int)
ColourUpdateValue(w, c, cd, a, f) ==
  LET assetID == a[1]
      additionalValue == a[2]
      existing == cd
      un == JsonUnmarshalColour(existing, c)
      ca1 == [un.c EXCEPT !.Value = @ + additionalValue]
      put == PutColourAsset(w, assetID, ca1, f)
  IN  IF existing = NilC THEN Ret(w, c, cd, Raw(""), Errorf(NoUpdateMsg, <<assetID>>))
      ELSE IF ~un.ok THEN Ret(w, un.c, cd, Raw(""), Errorf(NotComplexMsg, <<assetID>>))
      ELSE Ret(put.w, ca1, cd, Raw(""), put.err)

\* ComplexAsset.UpdateColour(ctx, assetID, additionalColours []string)
ColourUpdateColour(w, c, cd, a, f) ==
  LET assetID == a[1]
      additionalColours == a[2]
      existing == cd
      un == JsonUnmarshalColour(existing, c)
      ca1 == [un.c EXCEPT !.Colour = @ \o additionalColours]
      put == PutColourAsset(w, assetID, ca1, f)
  IN  IF existing = NilC THEN Ret(w, c, cd, Raw(""), Errorf(NoUpdateMsg, <<assetID>>))
      ELSE IF ~un.ok THEN Ret(w, un.c, cd, Raw(""), Errorf(NotComplexMsg, <<assetID>>))
      ELSE Ret(put.w, ca1, cd, Raw(""), put.err)

\* ComplexAsset.Read
ColourRead(w, c, cd, a, f) ==
  LET assetID == a[1]
      existing == cd
      un == JsonUnmarshalColour(existing, c)
  IN  IF existing = NilC THEN Ret(w, c, cd, Raw(""), Errorf(NoReadMsg, <<assetID>>))
      ELSE IF ~un.ok THEN Ret(w, un.c, cd, Raw(""), Errorf(NotComplexMsg, <<assetID>>))
      ELSE Ret(w, un.c, cd, existing, NoErr)

\* what callers pass for the owner, the value and the colours
ColOwners == {"Updated"}
ColValues == 0..MaxValue
ColColours == {<<"red">>, <<"red", "blue">>}

NoLast == [fn |-> "", args |-> <<>>, err |-> NoErr]

InitCol ==
  /\ col = [st |-> "serving",
            w |-> [id \in AssetIDs |-> NilC],
            c |-> [Owner |-> "", Value |-> 0, Colour |-> <<>>],
            n |-> 0,
            last |-> NoLast,
            prec |-> [Owner |-> "", Value |-> 0, Colour |-> <<>>]]
  /\ IdleServing
  /\ reg = NoReg
  /\ mar = NoMar
  /\ ret = NoRet
  /\ eq = NoEq
  /\ par = NoPar
  /\ twin = NoTwin

\* the function the ComplexAsset struct binds to an exported name
ColourCall(fn, w, c, cd, a, f) ==
  CASE fn = "Create" -> ColourCreate(w, c, cd, a, f)
    [] fn = "UpdateOwner" -> ColourUpdateOwner(w, c, cd, a, f)
    [] fn = "UpdateValue" -> ColourUpdateValue(w, c, cd, a, f)
    [] fn = "UpdateColour" -> ColourUpdateColour(w, c, cd, a, f)
    [] fn = "Read" -> ColourRead(w, c, cd, a, f)

\* one invocation of function fn of the contract: getAsset runs first, on a
\* fresh context, and its error ends the invocation; the function runs on
\* the one registered contract instance
ColServe(fn, a, f) ==
  /\ col.st = "serving"
  /\ col.n < MaxCalls
  /\ LET b == getAsset(col.w, col.c, NewCallData(NilC), <<a[1]>>, f)
         r == IF BeforeNext(b.err) = "DONE" THEN b ELSE ColourCall(fn, b.w, b.c, b.cd, a, f)
     IN  col' = [col EXCEPT !.w = r.w, !.c = r.c, !.n = @ + 1,
                            !.last = [fn |-> fn, args |-> a, err |-> r.err],
                            !.prec = col.c]
  /\ UNCHANGED <<servingVars, reg, mar, ret, eq, par, twin>>

ColCreate ==
  \E id \in AssetIDs, getFail \in BOOLEAN, putFail \in BOOLEAN :
    ColServe("Create", <<id>>, [get |-> getFail, put |-> putFail])

ColUpdateOwner ==
  \E id \in AssetIDs, o \in ColOwners, getFail \in BOOLEAN, putFail \in BOOLEAN :
    ColServe("UpdateOwner", <<id, o>>, [get |-> getFail, put |-> putFail])

ColUpdateValue ==
  \E id \in AssetIDs, v \in ColValues, getFail \in BOOLEAN, putFail \in BOOLEAN :
    /\ col.w[id].value + v <= MaxValue
    /\ ColServe("UpdateValue", <<id, v>>, [get |-> getFail, put |-> putFail])

ColUpdateColour ==
  \E id \in AssetIDs, cl \in ColColours, getFail \in BOOLEAN, putFail \in BOOLEAN :
    ColServe("UpdateColour", <<id, cl>>, [get |-> getFail, put |-> putFail])

ColRead ==
  \E id \in AssetIDs, getFail \in BOOLEAN :
    ColServe("Read", <<id>>, [get |-> getFail, put |-> FALSE])

NextCol ==
  \/ ColCreate
  \/ ColUpdateOwner
  \/ ColUpdateValue
  \/ ColUpdateColour
  \/ ColRead

SpecColour == InitCol /\ [][NextCol]_vars

\* ------------------------------- two ComplexAsset invocations at a time
\* The chaincode registers one ComplexAsset value (cac := new(ComplexAsset))
\* and every function has it as pointer receiver: invocations served at the
\* same time unmarshal into, assign to and marshal from the same Owner and
\* Value fields, without any lock.  Each invocation has its own context and
\* its own id; the steps are the reads and writes of the shared fields, in
\* the order of the code, and the calls to the state store.

ParThreads == {1, 2}
ParOther(i) == 3 - i
ParId(i) == IF i = 1 THEN "ASSET_1" ELSE "ASSET_2"
ParOwners == {"Regulator", "Updated"}
ParFns == {"Create", "UpdateOwner", "UpdateValue", "Read"}
\* the second argument a request carries for the function
ParArgs(fn) ==
  CASE fn = "UpdateOwner" -> {"Updated", "1"}
    [] fn = "UpdateValue" -> {"1", "Updated"}
    [] OTHER -> {""}

ParIdle ==
  [fn |-> "", arg |-> "", pc |-> "idle", cd |-> Nil, n |-> 0, tmp |-> 0,
   bo |-> "", bv |-> 0, err |-> NoErr, payload |-> Raw(""), wrote |-> Nil]

\* the world states in which the two ids hold nothing or a complex asset
ParWorlds ==
  [AssetIDs -> {Nil} \cup {Json(o, v) : o \in ParOwners, v \in 0..MaxValue}]

\* the instance holds the fields of the asset an earlier invocation last
\* converted or wrote, or its zero value when there was none
ParInstances(w) ==
  IF \A id \in AssetIDs : w[id] = Nil
    THEN {[Owner |-> "", Value |-> 0]}
    ELSE {[Owner |-> w[id].owner, Value |-> w[id].value] : id \in {k \in AssetIDs : w[k] # Nil}}

InitPar ==
  /\ \E w \in ParWorlds : \E c \in ParInstances(w) :
       par = [st |-> "serving", w |-> w, c |-> c,
              t |-> [i \in ParThreads |-> ParIdle], overlap |-> FALSE]
  /\ IdleServing
  /\ reg = NoReg
  /\ mar = NoMar
  /\ ret = NoRet
  /\ eq = NoEq
  /\ col = NoCol
  /\ twin = NoTwin

ParRest == <<servingVars, reg, mar, ret, eq, col, twin>>

\* thread i is at step p
ParAt(i, p) == par.st = "serving" /\ par.t[i].pc = p

\* thread i moves on with the fields of its record given in upd
ParGo(i, upd) ==
  [par EXCEPT !.t[i] = [k \in DOMAIN @ |-> IF k \in DOMAIN upd THEN upd[k] ELSE @[k]]]

\* thread i ends with error e
ParFail(i, e) == ParGo(i, [pc |-> "done", err |-> e])

\* a request for function fn on the thread's own id arrives; it overlaps
\* the other thread's invocation if that one is under way
ParSubmit(i, fn, arg) ==
  /\ ParAt(i, "idle")
  /\ arg \in ParArgs(fn)
  /\ ~(fn = "UpdateValue" /\ par.w[ParId(i)].value >= MaxValue)
  /\ par' = [ParGo(i, [fn |-> fn, arg |-> arg, pc |-> "hook"])
               EXCEPT !.overlap = @ \/ par.t[ParOther(i)].pc \notin {"idle", "done"}]
  /\ UNCHANGED ParRest

\* getAsset on the thread's own context
ParHook(i) ==
  /\ ParAt(i, "hook")
  /\ LET b == getAsset(par.w, par.c, Nil, <<ParId(i)>>, [get |-> FALSE, put |-> FALSE])
     IN  par' = ParGo(i, [cd |-> b.cd, pc |-> "entry"])
  /\ UNCHANGED ParRest

\* the function's tests before it touches the instance
ParEntry(i) ==
  /\ ParAt(i, "entry")
  /\ LET t == par.t[i]
         conv == Atoi(t.arg)
     IN  par' =
           CASE t.fn = "Create" ->
                  IF t.cd # Nil THEN ParFail(i, Errorf(ExistsMsg, <<ParId(i)>>))
                  ELSE ParGo(i, [pc |-> "setOwner"])
             [] t.fn = "UpdateOwner" ->
                  IF t.cd = Nil THEN ParFail(i, Errorf(NoUpdateMsg, <<ParId(i)>>))
                  ELSE ParGo(i, [pc |-> "unOwner"])
             [] t.fn = "UpdateValue" ->
                  IF ~conv.ok THEN ParFail(i, Errorf(NotIntMsg, <<t.arg>>))
                  ELSE IF t.cd = Nil THEN ParFail(i, Errorf(NoUpdateMsg, <<ParId(i)>>))
                  ELSE ParGo(i, [n |-> conv.n, pc |-> "unOwner"])
             [] t.fn = "Read" ->
                  IF t.cd = Nil THEN ParFail(i, Errorf(NoReadMsg, <<ParId(i)>>))
                  ELSE ParGo(i, [pc |-> "unOwner"])
  /\ UNCHANGED ParRest

\* json.Unmarshal(existing, ca) stores the owner member
ParUnmarshalOwner(i) ==
  /\ ParAt(i, "unOwner")
  /\ par' = [ParGo(i, [pc |-> "unValue"]) EXCEPT !.c.Owner = par.t[i].cd.owner]
  /\ UNCHANGED ParRest

\* slip: the value member is not stored
ParUnmarshalValueSkipped(i) ==
  /\ ParAt(i, "unValue")
  /\ LET t == par.t[i]
         next == CASE t.fn = "UpdateOwner" -> "setOwner"
                   [] t.fn = "UpdateValue" -> "load"
                   [] OTHER -> "done"
     IN  par' = ParGo(i, [pc |-> next,
                          payload |-> IF t.fn = "Read" THEN String(t.cd) ELSE Raw("")])
  /\ UNCHANGED ParRest

\* json.Unmarshal(existing, ca) stores the value member and returns; Read
\* then returns string(existing)
ParUnmarshalValue(i) ==
  /\ ParAt(i, "unValue")
  /\ LET t == par.t[i]
         next == CASE t.fn = "UpdateOwner" -> "setOwner"
                   [] t.fn = "UpdateValue" -> "load"
                   [] OTHER -> "done"
     IN  par' = [ParGo(i, [pc |-> next,
                           payload |-> IF t.fn = "Read" THEN String(t.cd) ELSE Raw("")])
                   EXCEPT !.c.Value = t.cd.value]
  /\ UNCHANGED ParRest

\* ca.Owner = "Regulator" of Create, ca.Owner = newOwner of UpdateOwner
ParSetOwner(i) ==
  /\ ParAt(i, "setOwner")
  /\ LET t == par.t[i]
     IN  par' = IF t.fn = "Create"
                  THEN [ParGo(i, [pc |-> "setValue"]) EXCEPT !.c.Owner = "Regulator"]
                  ELSE [ParGo(i, [pc |-> "marOwner"]) EXCEPT !.c.Owner = t.arg]
  /\ UNCHANGED ParRest

\* ca.Value = 0 of Create
ParSetValue(i) ==
  /\ ParAt(i, "setValue")
  /\ par' = [ParGo(i, [pc |-> "marOwner"]) EXCEPT !.c.Value = 0]
  /\ UNCHANGED ParRest

\* ca.Value += additionalValueInt: the field is read
ParLoadValue(i) ==
  /\ ParAt(i, "load")
  /\ par' = ParGo(i, [tmp |-> par.c.Value, pc |-> "store"])
  /\ UNCHANGED ParRest

\* ca.Value += additionalValueInt: the sum is stored
ParStoreValue(i) ==
  /\ ParAt(i, "store")
  /\ par' = [ParGo(i, [pc |-> "marOwner"]) EXCEPT !.c.Value = par.t[i].tmp + par.t[i].n]
  /\ UNCHANGED ParRest

\* json.Marshal(&ca) in PutComplexAsset reads the owner
ParMarshalOwner(i) ==
  /\ ParAt(i, "marOwner")
  /\ par' = ParGo(i, [bo |-> par.c.Owner, pc |-> "marValue"])
  /\ UNCHANGED ParRest

\* json.Marshal(&ca) in PutComplexAsset reads the value
ParMarshalValue(i) ==
  /\ ParAt(i, "marValue")
  /\ par' = ParGo(i, [bv |-> par.c.Value, pc |-> "put"])
  /\ UNCHANGED ParRest

\* PutState(assetID, caJSON) and the function's return
ParPut(i) ==
  /\ ParAt(i, "put")
  /\ \E putFail \in BOOLEAN :
       LET b == Json(par.t[i].bo, par.t[i].bv)
           put == PutState(par.w, ParId(i), b, putFail)
       IN  par' = IF put.ok
                    THEN [ParGo(i, [pc |-> "done", wrote |-> b]) EXCEPT !.w = put.w]
                    ELSE ParFail(i, ErrorsNew(UnableMsg))
  /\ UNCHANGED ParRest

NextPar ==
  \E i \in ParThreads :
    \/ \E fn \in ParFns, arg \in ArgVals : ParSubmit(i, fn, arg)
    \/ ParHook(i)
    \/ ParEntry(i)
    \/ ParUnmarshalOwner(i)
    \/ ParUnmarshalValue(i)
    \/ ParSetOwner(i)
    \/ ParSetValue(i)
    \/ ParLoadValue(i)
    \/ ParStoreValue(i)
    \/ ParMarshalOwner(i)
    \/ ParMarshalValue(i)
    \/ ParPut(i)

SpecPar == InitPar /\ [][NextPar]_vars

\* ------------------------------------ two copies of the chaincode
\* Two copies A and B of the chaincode with two namespaces, each with its
\* own world state and its own registered ComplexAsset, serve requests one
\* at a time: a request goes to one copy only or to both.

MaxTwinCalls == 4
MaxSolo == 1

\* one invocation of a known function of contract g with registered
\* instance c, served from world state w to its response: the before-hook,
\* if set, on a fresh context, then the function
InvokeWith(g, w, c, fn, args, f) ==
  LET m == Marshal(g.fns[fn], args, TRUE)
      run(w1, c1, cd) ==
        LET h == CallHandler(g.struct, fn, w1, c1, cd, m.vals, f)
        IN  [w |-> h.w, c |-> h.c, resp |-> Response(Returns(fn), h.payload, h.err)]
  IN  IF ~m.ok THEN [w |-> w, c |-> c, resp |-> ErrResp(ArgumentError)]
      ELSE IF g.before = "" THEN run(w, c, NewCallData(Nil))
      ELSE LET b == CallHook(g.before, w, c, NewCallData(Nil),
                             Marshal(HookParams(g.before), args, FALSE).vals, f)
           IN  IF BeforeNext(b.err) = "DONE"
                 THEN [w |-> b.w, c |-> b.c, resp |-> ErrResp(b.err)]
                 ELSE run(b.w, b.c, b.cd)

\* the asset the requests are about and the strings they pass as value
TwinIds == {"ASSET_1"}
TwinVals == {"1", "{}"}

\* world state and contract instance the copies start from: those of the
\* chaincode when started, or those after SimpleAsset.Create and
\* SimpleAsset.Update have left "{}" at the asset id
TwinStarts ==
  {[w |-> [id \in AssetIDs |-> Nil], c |-> [Owner |-> "", Value |-> 0]]}
    \cup {[w |-> [id \in AssetIDs |-> IF id = k THEN Raw("{}") ELSE Nil],
            c |-> [Owner |-> "", Value |-> 0]] : k \in TwinIds}

\* the correctly-formed requests to the functions of contract g
TwinRequestsOf(g) ==
  {[ns |-> g.ns, fn |-> fn, args |-> <<id>>] :
     fn \in {k \in DOMAIN g.fns : StringCount(g.fns[k]) = 1}, id \in TwinIds}
    \cup {[ns |-> g.ns, fn |-> fn, args |-> <<id, v>>] :
            fn \in {k \in DOMAIN g.fns : StringCount(g.fns[k]) = 2},
            id \in TwinIds, v \in TwinVals}

TwinRequests == UNION {TwinRequestsOf(mainMulti[i]) : i \in 1..Len(mainMulti)}

TwinNone == [kind |-> "none", rA |-> NoResp, rB |-> NoResp, same |-> FALSE]

InitTwin ==
  /\ \E s \in TwinStarts :
       twin = [st |-> "serving",
               wA |-> s.w, cA |-> s.c, wB |-> s.w, cB |-> s.c,
               preA |-> s.w, preB |-> s.w,
               n |-> 0, soloA |-> 0, soloB |-> 0, onlyErr |-> TRUE, last |-> TwinNone]
  /\ IdleServing
  /\ reg = NoReg
  /\ mar = NoMar
  /\ ret = NoRet
  /\ eq = NoEq
  /\ col = NoCol
  /\ par = NoPar

TwinRest == <<servingVars, reg, mar, ret, eq, col, par>>

\* the request is one the model serves: a call is left and the values stay
\* within the bound
TwinServes(r) ==
  /\ twin.st = "serving"
  /\ twin.n < MaxTwinCalls
  /\ r.fn = "UpdateValue" =>
       /\ twin.wA[r.args[1]].value < MaxValue /\ twin.cA.Value < MaxValue
       /\ twin.wB[r.args[1]].value < MaxValue /\ twin.cB.Value < MaxValue

TwinGroup(r) == mainMulti[ResolveGroup(mainMulti, r.ns)]

\* copy A alone serves request r
TwinA(r, f) ==
  /\ TwinServes(r)
  /\ twin.soloA < MaxSolo
  /\ LET a == InvokeWith(TwinGroup(r), twin.wA, twin.cA, r.fn, r.args, f)
     IN  twin' = [twin EXCEPT !.wA = a.w, !.cA = a.c, !.preA = twin.wA,
                              !.n = @ + 1, !.soloA = @ + 1,
                              !.onlyErr = @ /\ ~a.resp.err.nil,
                              !.last = [kind |-> "A", rA |-> a.resp, rB |-> NoResp,
                                        same |-> FALSE]]
  /\ UNCHANGED TwinRest

\* copy B alone serves request r
TwinB(r, f) ==
  /\ TwinServes(r)
  /\ twin.soloB < MaxSolo
  /\ LET b == InvokeWith(TwinGroup(r), twin.wB, twin.cB, r.fn, r.args, f)
     IN  twin' = [twin EXCEPT !.wB = b.w, !.cB = b.c, !.preB = twin.wB,
                              !.n = @ + 1, !.soloB = @ + 1,
                              !.onlyErr = @ /\ ~b.resp.err.nil,
                              !.last = [kind |-> "B", rA |-> NoResp, rB |-> b.resp,
                                        same |-> FALSE]]
  /\ UNCHANGED TwinRest

\* both copies serve request r, the state store failing for both or for
\* neither
TwinBoth(r, f) ==
  /\ TwinServes(r)
  /\ LET a == InvokeWith(TwinGroup(r), twin.wA, twin.cA, r.fn, r.args, f)
         b == InvokeWith(TwinGroup(r), twin.wB, twin.cB, r.fn, r.args, f)
     IN  twin' = [twin EXCEPT !.wA = a.w, !.cA = a.c, !.preA = twin.wA,
                              !.wB = b.w, !.cB = b.c, !.preB = twin.wB,
                              !.n = @ + 1,
                              !.last = [kind |-> "both", rA |-> a.resp, rB |-> b.resp,
                                        same |-> twin.wA = twin.wB]]
  /\ UNCHANGED TwinRest

NextTwin ==
  \E r \in TwinRequests, putFail \in BOOLEAN :
    LET f == [get |-> FALSE, put |-> putFail /\ r.fn \in WritingFns]
    IN  \/ TwinA(r, f)
        \/ TwinB(r, f)
        \/ TwinBoth(r, f)

SpecTwin == InitTwin /\ [][NextTwin]_vars

\* ------------------------------------------------------------ properties
Resolved == ResolveGroup(Chaincode(prog), req.ns) # 0
Stages == {calls[i].stage : i \in 1..Len(calls)}

\* C1: when the before-hook returns an error (getAsset does when it cannot
\* read the world state), neither the named function nor the after-hook is
\* invoked and the response carries the before-hook's error.
C1_BeforeErrorEndsInvocation ==
  \A i \in 1..Len(calls) :
    calls[i].stage = "BEFORE" =>
      /\ (calls[i].f.get => calls[i].err = ErrorsNew(UnableMsg))
      /\ (~calls[i].err.nil =>
            /\ "DISPATCH" \notin Stages
            /\ "AFTER" \notin Stages
            /\ pc = "DONE"
            /\ resp.err = calls[i].err)

\* C1 witness: an Update of the contract with before- and after-hook set,
\* ended by the before-hook's error
C1_Witness ==
  /\ prog = "extendedAfter"
  /\ pc = "DONE"
  /\ req.fn = "Update"
  /\ Len(calls) = 1
  /\ calls[1].stage = "BEFORE"
  /\ resp.err = ErrorsNew(UnableMsg)

\* C2: when the named function succeeded and the after-hook returns an
\* error, the response carries the after-hook's error and no payload.
C2_AfterErrorReplacesResponse ==
  \A i \in 1..Len(calls) :
    (calls[i].stage = "AFTER" /\ ~calls[i].err.nil) =>
      /\ \E j \in 1..(i - 1) : calls[j].stage = "DISPATCH" /\ calls[j].err.nil
      /\ pc = "DONE"
      /\ resp.err = calls[i].err
      /\ resp.payload = Raw("")

\* C2 witness: a Read of an existing asset succeeded, then the after-hook failed
C2_Witness ==
  /\ pc = "DONE"
  /\ req.fn = "Read"
  /\ Len(req.args) = 1
  /\ world[req.args[1]] = Raw("Initialised")
  /\ Len(calls) = 3
  /\ calls[2].stage = "DISPATCH"
  /\ calls[2].err.nil
  /\ calls[3].stage = "AFTER"
  /\ ~calls[3].err.nil

\* C3: in the chaincode with the two namespaces, a request qualified with
\* one namespace runs only that contract's function: the struct invoked is
\* the namespace's own, and a successful Create leaves that contract's
\* initial value at the id.
C3_NamespaceIsolation ==
  prog = "multi" =>
    /\ \A i \in 1..Len(calls) :
         calls[i].stage = "DISPATCH" =>
           /\ (req.ns = SimpleNs => calls[i].struct = "SimpleAsset")
           /\ (req.ns = ComplexNs => calls[i].struct = "ComplexAsset")
           /\ req.ns \in {SimpleNs, ComplexNs}
    /\ (pc = "AFTER" /\ req.fn = "Create") =>
         world[req.args[1]] =
           IF req.ns = SimpleNs THEN Raw("Initialised") ELSE Json("Regulator", 0)

\* C3 witness: after SimpleAsset.Create of one id, the complex namespace's
\* Create has run for the other
C3_Witness ==
  /\ prog = "multi"
  /\ pc = "AFTER"
  /\ req.ns = ComplexNs
  /\ req.fn = "Create"
  /\ world["ASSET_1"] = Raw("Initialised")
  /\ world["ASSET_2"] = Json("Regulator", 0)

UnknownFunction == pc = "DONE" /\ Resolved /\ req.fn \notin DOMAIN Group.fns

UnknownHookAnswered ==
  IF Group.unknown = ""
    THEN resp.err = FunctionNotFound(req.fn) /\ "UNKNOWN" \notin Stages
    ELSE /\ Len(calls) > 0
         /\ calls[Len(calls)].stage = "UNKNOWN"
         /\ calls[Len(calls)].fn = Group.unknown
         /\ calls[Len(calls)].args = << req.args >>
         /\ resp.err = Errorf(UnknownMsg, req.args)

IsSigCandidate == reg.st # "none" /\ Len(reg.gs) = 1 /\ reg.gs[1].struct = "Candidate"
CandidateParams == reg.gs[1].fns.F
Count(p, k) == Cardinality({i \in 1..Len(p) : p[i] = k})

LegalOrder(p) ==
  /\ Count(p, "ctx") <= 1
  /\ (Count(p, "ctx") = 1 => p[1] = "ctx")
  /\ Count(p, "slice") <= 1
  /\ (Count(p, "slice") = 1 => p[Len(p)] = "slice")

\* C5: a parameter list over context, string and []string is registered
\* exactly when it has at most one context, first, and at most one []string,
\* last; any other is refused before a request is served.
C5_LegalOrderings ==
  (/\ IsSigCandidate
   /\ \A i \in 1..Len(CandidateParams) : CandidateParams[i] \in AllowedKinds
   /\ reg.st # "main") =>
    /\ reg.st = "serving" <=> LegalOrder(CandidateParams)
    /\ ~LegalOrder(CandidateParams) => (reg.st = "refused" /\ reg.served = 0)

\* C5 witness: a function with the context in second place was refused
C5_Witness ==
  /\ IsSigCandidate
  /\ CandidateParams = <<"string", "ctx">>
  /\ reg.st = "refused"

HasOtherKind(gs) ==
  \E g \in 1..Len(gs) : \E n \in DOMAIN gs[g].fns : \E i \in 1..Len(gs[g].fns[n]) :
    gs[g].fns[n][i] \notin AllowedKinds

VariadicShape(p) ==
  /\ Len(p) >= 2
  /\ p[1] = "ctx"
  /\ p[Len(p)] = "slice"
  /\ \A i \in 2..(Len(p) - 1) : p[i] = "string"

\* C7: for (context, k strings, []string) and at least k request strings,
\* the first k strings go to the string parameters in order and all the
\* others, in order, to the []string; UpdateColour with
\* ["ASSET_1","red","blue"] receives ("ASSET_1", ["red","blue"]).
C7_TrailingSliceCollectsRest ==
  (mar.done /\ VariadicShape(mar.p) /\ Len(mar.args) >= Len(mar.p) - 2) =>
    LET k == Len(mar.p) - 2
        vals == mar.out.vals
    IN  /\ mar.out.ok
        /\ Len(vals) = k + 1
        /\ \A i \in 1..k : vals[i] = mar.args[i]
        /\ Len(vals[k + 1]) = Len(mar.args) - k
        /\ \A j \in 1..(Len(mar.args) - k) : vals[k + 1][j] = mar.args[k + j]
        /\ (mar.p = ColourAssetFns.UpdateColour /\ mar.args = <<"ASSET_1", "red", "blue">>)
             => vals = << "ASSET_1", <<"red", "blue">> >>

\* C7 witness: UpdateColour's parameters marshalled from ["ASSET_1","red","blue"]
C7_Witness ==
  /\ mar.done
  /\ mar.p = ColourAssetFns.UpdateColour
  /\ mar.args = <<"ASSET_1", "red", "blue">>
  /\ mar.out.ok

ArityMismatch ==
  /\ pc # "IDLE"
  /\ Resolved
  /\ req.fn \in DOMAIN Group.fns
  /\ Len(req.args) # Len(Group.fns[req.fn]) - 1

C9_HookGetsLeadingArguments ==
  \A i \in 1..Len(calls) :
    calls[i].stage = "BEFORE" =>
      /\ Len(calls[i].args) = Len(HookParams(calls[i].fn)) - 1
      /\ \A k \in 1..Len(calls[i].args) : calls[i].args[k] = req.args[k]
      /\ \A j \in 1..Len(calls) :
           calls[j].stage = "DISPATCH" =>
             \A k \in 1..Len(calls[i].args) : calls[j].args[k] = calls[i].args[k]

\* C9 witness: Update(assetID, value) ran after getAsset(assetID)
C9_Witness ==
  /\ pc = "AFTER"
  /\ req.fn = "Update"
  /\ Len(calls) = 2
  /\ calls[1].stage = "BEFORE"
  /\ calls[1].args = << req.args[1] >>
  /\ calls[2].stage = "DISPATCH"
  /\ calls[2].args = << req.args[1], req.args[2] >>

\* C10: the contracts of a serving chaincode have pairwise distinct
\* namespaces, at most one of them the default; a main with two contracts
\* of one namespace, or two without a namespace, never serves a request.
C10_NamespacesDistinct ==
  /\ reg.st = "serving" =>
       /\ \A i, j \in 1..Len(reg.gs) :
            i < j => Namespace(reg.gs[i]) # Namespace(reg.gs[j])
       /\ Cardinality({i \in 1..Len(reg.gs) : Namespace(reg.gs[i]) = DefaultNamespace}) <= 1
       /\ Cardinality({i \in 1..Len(reg.gs) : reg.gs[i].ns = ""}) <= 1
  /\ reg.st = "refused" => reg.served = 0

\* C10 witness: two contracts without a namespace were refused
C10_Witness ==
  /\ reg.st = "refused"
  /\ Len(reg.gs) = 2
  /\ reg.gs[1].ns = ""
  /\ reg.gs[2].ns = ""

\* C11: for every declared return shape the response is the returned string
\* with no error when no error is returned and a string is declared; an
\* empty payload with the returned error whenever that error is non-nil,
\* also when a non-empty string came with it; an empty payload and no error
\* when there is neither.
C11_ReturnShapes ==
  ret.done =>
    LET failed == ret.d.err /\ ~ret.e.nil
    IN  /\ failed => ret.out = [payload |-> Raw(""), err |-> ret.e]
        /\ (~failed /\ ret.d.str) => ret.out = [payload |-> ret.s, err |-> NoErr]
        /\ (~failed /\ ~ret.d.str) => ret.out = [payload |-> Raw(""), err |-> NoErr]

\* C11 witness: (string, error) returned a non-empty string with an error
C11_Witness ==
  /\ ret.done
  /\ ret.d = StringAndError
  /\ ret.s = Raw("Updated")
  /\ ret.e = ErrorsNew(UnableMsg)
  /\ ret.out.payload = Raw("")

\* a Read(id) of the simple asset contract has run, and the last write that
\* succeeded on id was an Update (which needs a Create to have succeeded)
ReadAfterUpdate ==
  /\ prog = "simple"
  /\ pc \in {"AFTER", "DONE"}
  /\ req.fn = "Read"
  /\ Len(calls) = 1
  /\ calls[1].stage = "DISPATCH"
  /\ lastw[req.args[1]].fn = "Update"

\* C12 as stated: after a successful Create(id) and a successful
\* Update(id, v), a Read(id) before any further write to id returns v and no
\* error.
C12_AsStated ==
  ReadAfterUpdate => resp = [payload |-> Raw(lastw[req.args[1]].v), err |-> NoErr]

\* C12: after a successful Create(id) and a successful Update(id, v), a
\* Read(id) before any further write to id returns v and no error, provided
\* the state store answers Read's GetState; when it does not, Read returns
\* the error of the failed read.
C12_ReadReturnsUpdatedValue ==
  ReadAfterUpdate =>
    resp = IF calls[1].f.get
             THEN [payload |-> Raw(""), err |-> ErrorsNew(UnableMsg)]
             ELSE [payload |-> Raw(lastw[req.args[1]].v), err |-> NoErr]

\* C12 witness: the tutorial's case, Read of ASSET_1 after Create and
\* Update to "Updated"
C12_Witness ==
  /\ ReadAfterUpdate
  /\ req.args = <<"ASSET_1">>
  /\ lastw["ASSET_1"].fn = "Update"
  /\ lastw["ASSET_1"].v = "Updated"
  /\ resp = [payload |-> Raw("Updated"), err |-> NoErr]

\* both contracts gave the same response and hold the same world state
SameBehaviour == eq.rA = eq.rB /\ eq.wA = eq.wB

\* C13: the extended simple asset contract with the custom transaction
\* context (getAsset keeps GetState's result in callData, the functions
\* test it against nil) answers every correctly-formed Create, Update and
\* Read as the simple asset contract does and reaches the same world state.
C13_CustomContextEquivalent ==
  eq.impl = "custom" => SameBehaviour

\* C13 witness: both contracts answered the Read of an asset updated to the
\* empty value
C13_Witness ==
  /\ eq.impl = "custom"
  /\ eq.n = 3
  /\ eq.r = [fn |-> "Read", args |-> <<"ASSET_1">>]
  /\ eq.wA["ASSET_1"] = Raw("")
  /\ eq.rA = [payload |-> Raw(""), err |-> NoErr]
  /\ eq.rB = eq.rA

\* C14 as stated: the extended simple asset contract with ctx.SetCallData
\* and length tests answers every correctly-formed Create, Update and Read,
\* Updates to the empty value included, as the simple asset contract does
\* and reaches the same world state.
C14_AsStated ==
  eq.impl = "builtin" => SameBehaviour

\* C14: the two contracts agree on every sequence in which no Update has
\* stored the empty value.
C14_EquivalentUntilEmptyValue ==
  (eq.impl = "builtin" /\ ~eq.wroteEmpty) => SameBehaviour

\* C14 witness: no empty value written, both contracts answered the Read of
\* an updated asset
C14_Witness ==
  /\ eq.impl = "builtin"
  /\ ~eq.wroteEmpty
  /\ eq.n = 3
  /\ eq.r = [fn |-> "Read", args |-> <<"ASSET_1">>]
  /\ eq.rA = [payload |-> Raw("Updated"), err |-> NoErr]
  /\ eq.rB = eq.rA

\* the place of a stage in the lifecycle; the unknown-function hook takes
\* the function's place
StageRank(st) ==
  CASE st = "BEFORE" -> 1
    [] st = "DISPATCH" -> 2
    [] st = "UNKNOWN" -> 2
    [] st = "AFTER" -> 3

HelperNames == {"getAsset", "handleUnknown", "put"}

NamespaceUnknown ==
  /\ pc # "IDLE"
  /\ \A i \in 1..Len(Chaincode(prog)) : Namespace(Chaincode(prog)[i]) # req.ns

\* C18: a request whose namespace matches no contract of the chaincode
\* reaches no function and no hook of any contract; it ends with the
\* generic not-found error, and world state and contract instance are as
\* before, so later requests are served as usual.
C18_UnknownNamespace ==
  NamespaceUnknown =>
    /\ pc = "DONE"
    /\ calls = <<>>
    /\ resp = [payload |-> Raw(""), err |-> ContractNotFound]
    /\ world = pre.w
    /\ ca = pre.c
    /\ callData = Nil

\* C18 witness: the chaincode with two namespaces, holding an asset, gets a
\* Read of that asset in a namespace it does not have
C18_Witness ==
  /\ NamespaceUnknown
  /\ prog = "multi"
  /\ req = [ns |-> "org.example.assets.other", fn |-> "Read", args |-> <<"ASSET_1">>]
  /\ world["ASSET_1"] # Nil
  /\ resp.err = ContractNotFound

\* a function of a simple asset contract has run for the request and the
\* state store failed none of the calls made for it
SimpleAssetServed ==
  /\ pc \in {"AFTER", "DONE"}
  /\ Resolved
  /\ Group.struct \in {"SimpleAsset", "PlainSimpleAsset"}
  /\ "DISPATCH" \in Stages
  /\ \A i \in 1..Len(calls) : ~calls[i].f.get /\ ~calls[i].f.put

\* C19: in the simple asset contract, the state store not failing,
\* Create(id) returns an error exactly when id already holds a value and
\* otherwise stores "Initialised" at id; Update(id, v) and Read(id) return
\* an error exactly when id holds no value, otherwise Update stores v at id
\* and Read returns the value stored.
C19_SimpleAssetBehaviour ==
  SimpleAssetServed =>
    LET id == req.args[1]
        held == pre.w[id] # Nil
    IN  /\ req.fn = "Create" =>
             /\ resp.err.nil <=> ~held
             /\ held => (resp.err = Errorf(ExistsMsg, <<id>>) /\ world = pre.w)
             /\ ~held => world = [pre.w EXCEPT ![id] = Raw("Initialised")]
        /\ req.fn = "Update" =>
             /\ resp.err.nil <=> held
             /\ ~held => (resp.err = Errorf(NoUpdateMsg, <<id>>) /\ world = pre.w)
             /\ held => world = [pre.w EXCEPT ![id] = Raw(req.args[2])]
        /\ req.fn = "Read" =>
             /\ resp.err.nil <=> held
             /\ ~held => resp.err = Errorf(NoReadMsg, <<id>>)
             /\ held => resp.payload = String(pre.w[id])
             /\ world = pre.w

\* C19 witness: the contract with the before-hook refused to create an
\* asset over one that holds the empty value
C19_Witness ==
  /\ SimpleAssetServed
  /\ prog = "multi"
  /\ req.fn = "Create"
  /\ pre.w[req.args[1]] = Raw("")
  /\ resp.err = Errorf(ExistsMsg, <<req.args[1]>>)

\* the last invocation was a Create that returned no error
ColourCreated == col.last.fn = "Create" /\ col.last.err.nil

\* C20 as stated: every successful ComplexAsset.Create(id) stores at id an
\* asset with owner "Regulator", value 0 and an empty colour list, whatever
\* the contract instance served before.
C20_AsStated ==
  ColourCreated => col.w[col.last.args[1]] = JsonColour("Regulator", 0, <<>>)

\* C20: every successful ComplexAsset.Create(id) stores at id an asset with
\* owner "Regulator" and value 0; its colour list is the one the contract
\* instance was left with by the invocation served before.
C20_CreateStoresInstanceColours ==
  ColourCreated =>
    col.w[col.last.args[1]] = JsonColour("Regulator", 0, col.prec.Colour)

\* C20 witness: ASSET_2 is created after ASSET_1 was given the colour red,
\* and is stored with that colour
C20_Witness ==
  /\ ColourCreated
  /\ col.last.args = <<"ASSET_2">>
  /\ col.w["ASSET_1"] = JsonColour("Regulator", 0, <<"red">>)
  /\ col.w["ASSET_2"] = JsonColour("Regulator", 0, <<"red">>)

\* an update function of the complex asset contract has returned no error
\* for an id that held a complex asset
ComplexAssetUpdated ==
  /\ pc \in {"AFTER", "DONE"}
  /\ Resolved
  /\ Group.struct = "ComplexAsset"
  /\ req.fn \in {"UpdateOwner", "UpdateValue"}
  /\ \E i \in 1..Len(calls) : calls[i].stage = "DISPATCH" /\ calls[i].err.nil
  /\ pre.w[req.args[1]].kind = "json"

ComplexAssetOnPlainValue ==
  /\ pc \in {"AFTER", "DONE"}
  /\ Resolved
  /\ Group.struct = "ComplexAsset"
  /\ req.fn \in {"UpdateOwner", "UpdateValue", "Read"}
  /\ "DISPATCH" \in Stages
  /\ req.fn = "UpdateValue" => Atoi(req.args[2]).ok
  /\ pre.w[req.args[1]].kind = "raw"

\* the text of a JSON object
JsonObjectText == {"{}"}

\* C22 as stated: ComplexAsset.UpdateOwner, UpdateValue and Read on an id
\* whose stored value is not the JSON form of a complex asset, such as any
\* value written by SimpleAsset.Create or SimpleAsset.Update, return the
\* error "Asset with id ... is not a ComplexAsset" and write nothing.
C22_AsStated ==
  ComplexAssetOnPlainValue =>
    /\ resp.err = Errorf(NotComplexMsg, <<req.args[1]>>)
    /\ world = pre.w

\* C22: ComplexAsset.UpdateOwner, UpdateValue and Read on an id whose stored
\* value is a plain string that is not the text of a JSON object return the
\* error "Asset with id ... is not a ComplexAsset" and write nothing.
C22_RejectsWhatIsNoJsonObject ==
  (ComplexAssetOnPlainValue /\ pre.w[req.args[1]].s \notin JsonObjectText) =>
    /\ resp.err = Errorf(NotComplexMsg, <<req.args[1]>>)
    /\ resp.payload = Raw("")
    /\ world = pre.w

\* C22 witness: UpdateOwner refused the asset that SimpleAsset.Create had
\* initialised and SimpleAsset.Update had set to "1"
C22_Witness ==
  /\ ComplexAssetOnPlainValue
  /\ req.fn = "UpdateOwner"
  /\ lastw[req.args[1]].fn = "Update"
  /\ lastw[req.args[1]].v = "1"
  /\ world[req.args[1]] = Raw("1")
  /\ resp.err = Errorf(NotComplexMsg, <<req.args[1]>>)

\* C22 failing case: UpdateOwner took the value "{}" that SimpleAsset.Update
\* had stored for a complex asset and wrote an asset over it
C22_PlainValueOverwritten ==
  /\ ComplexAssetOnPlainValue
  /\ req.fn = "UpdateOwner"
  /\ pre.w[req.args[1]] = Raw("{}")
  /\ resp.err.nil
  /\ world[req.args[1]].kind = "json"

\* ComplexAsset.UpdateValue has run with a value that is no integer
UpdateValueNoInteger ==
  /\ pc \in {"AFTER", "DONE"}
  /\ Resolved
  /\ Group.struct = "ComplexAsset"
  /\ req.fn = "UpdateValue"
  /\ "DISPATCH" \in Stages
  /\ ~Atoi(req.args[2]).ok

\* C23: ComplexAsset.UpdateValue(id, s) with s not an integer returns the
\* error "Cannot use passed value s as value. It is not an integer" and
\* leaves the world state unchanged, whether an asset exists at id or not:
\* the conversion is checked before the existence of the asset.
C23_ConversionBeforeExistence ==
  UpdateValueNoInteger =>
    /\ resp = ErrResp(Errorf(NotIntMsg, <<req.args[2]>>))
    /\ calls[Len(calls)].err = Errorf(NotIntMsg, <<req.args[2]>>)
    /\ world = pre.w
    /\ pc = "DONE"

\* C23 witness: UpdateValue with "Updated" as value for an id that holds no
\* asset was answered with the conversion error
C23_Witness ==
  /\ UpdateValueNoInteger
  /\ req.args[2] = "Updated"
  /\ pre.w[req.args[1]] = Nil
  /\ resp.err = Errorf(NotIntMsg, <<"Updated">>)

\* C24: whenever a function of a contract whose before-hook is getAsset
\* begins, the call data it reads is the value the world state held for the
\* function's own assetID argument when the hook ran in the same
\* invocation: hook and function receive the same first argument.
C24_CallDataIsOwnAsset ==
  /\ (pc = "DISPATCH" /\ Group.before = "getAsset") =>
       /\ Len(calls) = 1
       /\ calls[1].stage = "BEFORE"
       /\ calls[1].args[1] = req.args[1]
       /\ callData = world[req.args[1]]
  /\ \A i \in 1..Len(calls) :
       (calls[i].stage = "DISPATCH" /\ Group.before = "getAsset") =>
         /\ i = 2
         /\ calls[1].stage = "BEFORE"
         /\ calls[1].fn = "getAsset"
         /\ calls[1].args[1] = calls[i].args[1]
         /\ calls[i].cd = pre.w[calls[i].args[1]]

\* C24 witness: UpdateOwner of the second asset began with the JSON stored
\* for the second asset as call data, the first asset holding another value
C24_Witness ==
  /\ pc = "AFTER"
  /\ Group.before = "getAsset"
  /\ req.fn = "UpdateOwner"
  /\ req.args[1] = "ASSET_2"
  /\ calls[2].cd = Json("Regulator", 0)
  /\ pre.w["ASSET_2"] = Json("Regulator", 0)
  /\ pre.w["ASSET_1"] = Raw("Initialised")

\* in the chaincode with two namespaces a function of one contract has run
\* for an id that the Create of the other contract made
OtherContractsAsset ==
  /\ prog = "multi"
  /\ pc \in {"AFTER", "DONE"}
  /\ Resolved
  /\ "DISPATCH" \in Stages
  /\ pre.w[req.args[1]] # Nil
  /\ lastw[req.args[1]].by \in {"SimpleAsset", "ComplexAsset"}
  /\ lastw[req.args[1]].by # Group.struct

\* C25 as stated: the assets of the two contracts are separate: a
\* SimpleAsset function never changes or reads as its own the value stored
\* under an id created by ComplexAsset.Create, and a ComplexAsset function
\* never changes the value stored under an id created by SimpleAsset.Create.
C25_AsStated ==
  OtherContractsAsset =>
    /\ world = pre.w
    /\ (Group.struct = "SimpleAsset" /\ req.fn = "Read") => ~resp.err.nil

\* C25: the two contracts share the ids of the world state, and what keeps
\* an asset of the other contract as it is are the functions' own checks:
\* Create of either contract refuses an id the other contract created, and
\* a ComplexAsset function refuses an id SimpleAsset.Create made as long as
\* the value there is no text of a JSON object.
C25_OtherContractsAssetWhereChecked ==
  OtherContractsAsset =>
    /\ req.fn = "Create" =>
         (resp.err = Errorf(ExistsMsg, <<req.args[1]>>) /\ world = pre.w)
    /\ (Group.struct = "ComplexAsset" /\ pre.w[req.args[1]].kind = "raw"
          /\ pre.w[req.args[1]].s \notin JsonObjectText) =>
         (~resp.err.nil /\ world = pre.w)

\* C25 witness: ComplexAsset.Create refused the id of an asset that
\* SimpleAsset.Create had made
C25_Witness ==
  /\ OtherContractsAsset
  /\ Group.struct = "ComplexAsset"
  /\ req.fn = "Create"
  /\ world[req.args[1]] = Raw("Initialised")
  /\ resp.err = Errorf(ExistsMsg, <<req.args[1]>>)

\* C25 failing case: SimpleAsset.Update overwrote the asset that
\* ComplexAsset.Create had made
C25_SimpleUpdateOverwroteComplexAsset ==
  /\ OtherContractsAsset
  /\ Group.struct = "SimpleAsset"
  /\ req.fn = "Update"
  /\ pre.w[req.args[1]] = Json("Regulator", 0)
  /\ world[req.args[1]] = Raw("Updated")
  /\ resp.err.nil

\* what thread i's function computes from the value its hook found at its
\* id and from its own arguments
ParExpected(i) ==
  LET t == par.t[i]
  IN  CASE t.fn = "UpdateOwner" -> Json(t.arg, t.cd.value)
        [] t.fn = "UpdateValue" -> Json(t.cd.owner, t.cd.value + t.n)
        [] OTHER -> Json("Regulator", 0)

\* thread i's invocation has returned after writing its asset
ParWrote(i) == par.st = "serving" /\ par.t[i].pc = "done" /\ par.t[i].wrote # Nil

\* C26 as stated: when two ComplexAsset invocations on different ids run at
\* the same time against the same registered contract instance, under every
\* interleaving the value each one writes to its own id is computed only
\* from the value previously stored at that id and its own arguments; no
\* invocation stores the owner or value of the other asset.
C26_AsStated ==
  \A i \in ParThreads : ParWrote(i) => par.t[i].wrote = ParExpected(i)

\* C26: two ComplexAsset invocations on different ids of which one begins
\* after the other has returned each write to their own id the value
\* computed from the value previously stored there and their own arguments.
C26_OneAfterTheOther ==
  \A i \in ParThreads :
    (ParWrote(i) /\ ~par.overlap) => par.t[i].wrote = ParExpected(i)

\* C26 witness: UpdateValue of the second asset began after UpdateOwner of
\* the first had returned, and both stored the value of their own asset
C26_Witness ==
  /\ ParWrote(1) /\ ParWrote(2)
  /\ ~par.overlap
  /\ par.t[1].fn = "UpdateOwner"
  /\ par.t[2].fn = "UpdateValue"
  /\ par.t[1].cd = Json("Regulator", 1)
  /\ par.t[2].cd = Json("Updated", 0)
  /\ par.w = [id \in AssetIDs |-> Json("Updated", 1)]
  /\ par.t[2].wrote = Json("Updated", 1)
  /\ par.c = [Owner |-> "Updated", Value |-> 1]

\* C26 failing case: UpdateOwner of the first asset stored the value of the
\* second asset, which a Read served at the same time had converted
C26_StoredOtherAssetsValue ==
  /\ ParWrote(1)
  /\ par.t[1].fn = "UpdateOwner"
  /\ par.t[2].fn = "Read"
  /\ par.t[1].cd = Json("Regulator", 0)
  /\ par.t[2].cd = Json("Regulator", 1)
  /\ par.t[1].wrote = Json("Updated", 1)

\* copy A, or copy B, has served a request with an error as response
TwinErrorA == twin.st = "serving" /\ twin.last.kind \in {"A", "both"} /\ ~twin.last.rA.err.nil
TwinErrorB == twin.st = "serving" /\ twin.last.kind \in {"B", "both"} /\ ~twin.last.rB.err.nil

\* the two copies have served the same requests, but for requests that one
\* of them served alone and answered with an error, and have now both
\* answered a request
TwinDifferByErrors ==
  twin.st = "serving" /\ twin.onlyErr /\ twin.last.kind = "both"

\* C27 as stated: every invocation of a sample contract function whose
\* response carries an error leaves the world state exactly as it was
\* before the invocation and does not change the response of any later
\* invocation: a copy that served such invocations in addition answers
\* every later request as the copy that did not.
C27_AsStated ==
  /\ TwinErrorA => twin.wA = twin.preA
  /\ TwinErrorB => twin.wB = twin.preB
  /\ TwinDifferByErrors => twin.last.rA = twin.last.rB

\* C27: every invocation of a sample contract function whose response
\* carries an error leaves the world state exactly as it was before the
\* invocation, and later invocations are answered as without it for as long
\* as they find the same world state.
C27_ErrorLeavesWorldState ==
  /\ TwinErrorA => twin.wA = twin.preA
  /\ TwinErrorB => twin.wB = twin.preB
  /\ (TwinDifferByErrors /\ twin.last.same) => twin.last.rA = twin.last.rB

\* C27 witness: copy A alone served a request that it answered with an
\* error, and a later Read returned the updated value in both copies
C27_Witness ==
  /\ TwinDifferByErrors
  /\ twin.soloA = 1
  /\ twin.last.same
  /\ twin.wA = twin.preA
  /\ twin.last.rA = [payload |-> Raw("1"), err |-> NoErr]
  /\ twin.last.rB = twin.last.rA

\* C27 failing case: the copies differ by a request answered with an error
\* and return different assets to the same Read
C27_LaterResponseChanged ==
  /\ TwinDifferByErrors
  /\ twin.last.rA.err.nil
  /\ twin.last.rB.err.nil
  /\ twin.last.rA.payload # twin.last.rB.payload

\* the ids whose value differs between world states v and w
ChangedKeys(v, w) == {id \in AssetIDs : v[id] # w[id]}

\* C28: every invocation changes at most one key of the world state, the
\* key equal to its assetID argument, and changes it at most once; Read and
\* invocations that go to the unknown-function hook change no key.
C28_OneKeyAtMostOnce ==
  /\ [](/\ ChangedKeys(pre.w, world) \subseteq
             (IF Len(req.args) > 0 THEN {req.args[1]} ELSE {})
        /\ (pc # "IDLE" /\ (req.fn = "Read" \/ UnknownFunction)) => world = pre.w)
  /\ [][world' # world =>
          /\ pc = "DISPATCH"
          /\ world = pre.w
          /\ req.fn \in WritingFns
          /\ ChangedKeys(world, world') = {req.args[1]}]_vars

\* C28 witness: UpdateOwner has changed the key of its asset id, the other
\* key holding an asset that is left as it was
C28_Witness ==
  /\ pc = "AFTER"
  /\ req.fn = "UpdateOwner"
  /\ ChangedKeys(pre.w, world) = {req.args[1]}
  /\ \E id \in AssetIDs \ {req.args[1]} : world[id] # Nil

\* the contract that tests len(existing) has answered a request for an id
\* that an earlier Create of it made
BuiltinAfterCreate ==
  eq.impl = "builtin" /\ eq.n > 0 /\ eq.wasMade

\* the asset of the request is treated as existing: Create is refused with
\* "already exists" (or the state store failed), Read and Update are not
\* refused with "does not exist"
TreatedAsExisting ==
  LET id == eq.r.args[1]
  IN  /\ eq.r.fn = "Create" =>
           eq.rB.err \in {Errorf(ExistsMsg, <<id>>), ErrorsNew(UnableMsg)}
      /\ eq.r.fn \in {"Read", "Update"} =>
           eq.rB.err \notin {Errorf(NoReadMsg, <<id>>), Errorf(NoUpdateMsg, <<id>>)}

\* C29 as stated: in the variant that tests len(existing), an asset never
\* stops existing once created: after a successful Create(id), whatever
\* successful Update(id, v) follow (v = "" included), every later Create(id)
\* fails with "already exists" and every later Read(id) or Update(id, ...)
\* does not fail with "does not exist".
C29_AsStated == BuiltinAfterCreate => TreatedAsExisting

\* C29: in the variant that tests len(existing), after a successful
\* Create(id) every later Create(id) fails with "already exists" and every
\* later Read(id) or Update(id, ...) does not fail with "does not exist",
\* for as long as the value stored at id is not the empty one.
C29_ExistsWhileNotEmpty ==
  (BuiltinAfterCreate /\ ~eq.wasEmpty) => TreatedAsExisting

\* C29 witness: the asset, created and updated to "Updated", is refused by
\* Create as existing
C29_Witness ==
  /\ BuiltinAfterCreate
  /\ ~eq.wasEmpty
  /\ eq.r = [fn |-> "Create", args |-> <<"ASSET_1">>]
  /\ eq.wB["ASSET_1"] = Raw("Updated")
  /\ eq.rB.err = Errorf(ExistsMsg, <<"ASSET_1">>)

\* C29 failing case: the asset, created and updated to the empty value, is
\* created again
C29_CreatedAgain ==
  /\ BuiltinAfterCreate
  /\ eq.wasEmpty
  /\ eq.r = [fn |-> "Create", args |-> <<"ASSET_1">>]
  /\ eq.rB.err.nil
  /\ eq.wB["ASSET_1"] = Raw("Initialised")

\* both copies have served the same request from the same world state
TwinSameRequestSameWorld ==
  twin.st = "serving" /\ twin.last.kind = "both" /\ twin.last.same

\* C30 as stated: responses and writes are a function of the request and
\* the world state alone: two copies of the chaincode with two namespaces
\* that hold the same world state but served different earlier invocations
\* return the same response and make the same write for the same next
\* invocation.
C30_AsStated ==
  TwinSameRequestSameWorld =>
    /\ twin.last.rA = twin.last.rB
    /\ twin.wA = twin.wB

\* C30: two copies of the chaincode with two namespaces that hold the same
\* world state but served different earlier invocations return the same
\* response for the same next invocation, and make the same write when the
\* world state holds no JSON object that lacks the fields of the asset.
C30_ResponseFromRequestAndWorld ==
  TwinSameRequestSameWorld =>
    /\ twin.last.rA = twin.last.rB
    /\ (\A id \in AssetIDs :
          ~(twin.preA[id].kind = "raw" /\ twin.preA[id].s \in JsonObjectText))
         => twin.wA = twin.wB

\* C30 witness: the copies, one after SimpleAsset.Create and one after
\* ComplexAsset.Create, hold the same world state and different instances,
\* and made the same write for the same request
C30_Witness ==
  /\ TwinSameRequestSameWorld
  /\ ~twin.onlyErr
  /\ twin.soloA = 1 /\ twin.soloB = 1
  /\ twin.cA # twin.cB
  /\ twin.preA["ASSET_1"] = Raw("1")
  /\ twin.wA["ASSET_1"] = Raw("{}")
  /\ twin.wA = twin.wB
  /\ twin.last.rA = twin.last.rB

\* C30 failing case: from the same world state the copies wrote different
\* assets for the same UpdateValue
C30_DifferentWrites ==
  /\ TwinSameRequestSameWorld
  /\ twin.preA["ASSET_1"] = Raw("{}")
  /\ twin.last.rA.err.nil
  /\ twin.wA["ASSET_1"].kind = "json"
  /\ twin.wB["ASSET_1"].kind = "json"
  /\ twin.wA["ASSET_1"].owner # twin.wB["ASSET_1"].owner
  /\ ~twin.onlyErr

============================================================================
